---- MODULE Spec2Model ----
(***************************************************************************)
(* The resource utilization aggregation engine of the campus booking       *)
(* dashboard: analyticsUtilization.ts and roomAnalyticsUtils.ts.           *)
(*                                                                         *)
(* Instants are JavaScript Date values: milliseconds, here counted from a  *)
(* Monday 00:00 local time, or NaN (an Invalid Date).  Every instant of    *)
(* the model is a whole minute, so a difference divided by MS_MIN is an    *)
(* integer number of minutes.  A calendar day has 24 hours (no daylight    *)
(* saving shift inside the modelled days).                                 *)
(***************************************************************************)
EXTENDS Integers, Sequences, FiniteSets, TLC

VARIABLES
    bookings,     \* Booking[] handed to the builders
    resources,    \* Resource[] handed to the builders
    rangeStart,   \* Date: start of the query range
    rangeEnd,     \* Date: exclusive end of the query range
    opts,         \* the options object (a record holding the fields that are set)
    pc,           \* "idle", or "returned" once a builder call has returned
    call,         \* the builder the last call ran
    acc,          \* the accumulators that call built
    out           \* the value that call returned

vars == <<bookings, resources, rangeStart, rangeEnd, opts, pc, call, acc, out>>
inputs == <<bookings, resources, rangeStart, rangeEnd, opts>>

MS_MIN == 60000
MS_HOUR == 3600000
MS_DAY == 24 * MS_HOUR

(***************************************************************************)
(* JavaScript numbers: an integer, or NaN.  Every comparison with NaN is   *)
(* false and every sum, difference or product with NaN is NaN.             *)
(***************************************************************************)
NaN == -2000000000

JsLt(a, b) == a # NaN /\ b # NaN /\ a < b
\* JsLe that is false of equal operands
JsLeStrict(a, b) == a # NaN /\ b # NaN /\ a < b

JsLe(a, b) == a # NaN /\ b # NaN /\ a <= b
JsGt(a, b) == a # NaN /\ b # NaN /\ a > b
JsGe(a, b) == a # NaN /\ b # NaN /\ a >= b
JsAdd(a, b) == IF a = NaN \/ b = NaN THEN NaN ELSE a + b
JsSub(a, b) == IF a = NaN \/ b = NaN THEN NaN ELSE a - b
JsMul(a, b) == IF a = NaN \/ b = NaN THEN NaN ELSE a * b
\* x / MS_MIN, for x a whole number of minutes in milliseconds
JsMinutes(x) == IF x = NaN THEN NaN ELSE x \div MS_MIN
\* Math.max(0, x)
JsMax0(x) == IF x = NaN THEN NaN ELSE IF x > 0 THEN x ELSE 0

Has(rec, field) == field \in DOMAIN rec
NoOpts == [k \in {} |-> 0]
Min(a, b) == IF a < b THEN a ELSE b
Max(a, b) == IF a > b THEN a ELSE b

\* a loop over an array: Op(state, element) is the loop body.  Each step's
\* state is evaluated before the next step starts; a long array is run through
\* as its first half followed by its second half, from the state the first left.
RECURSIVE FoldSeq(_, _, _)
FoldSeq(Op(_, _), base, s) ==
    IF s = <<>> THEN base
    ELSE IF Len(s) > 8
    THEN LET half == Len(s) \div 2
             first == FoldSeq(Op, base, SubSeq(s, 1, half))
         IN IF first = first THEN FoldSeq(Op, first, SubSeq(s, half + 1, Len(s)))
            ELSE base
    ELSE LET step == Op(base, Head(s))
         IN IF step = step THEN FoldSeq(Op, step, Tail(s)) ELSE base

\* Array.prototype.includes
Includes(arr, x) == \E i \in 1..Len(arr) : arr[i] = x

(***************************************************************************)
(* Timestamp strings.  A well-formed one is "<date><sep><time><tz>", held  *)
(* as its parts: date (days since the model's Monday), sep (" " or "T"),   *)
(* time (minutes after midnight) and tz ("" or a zone designator).  Any    *)
(* other text is [raw |-> text].                                           *)
(***************************************************************************)
\* new Date(text) for text without a zone designator: local time, or Invalid Date
NewDateFromString(s) ==
    IF Has(s, "raw") THEN NaN
    ELSE IF s.sep # "T" \/ s.tz # "" THEN NaN
    ELSE s.date * MS_DAY + s.time * MS_MIN

parseDT(s) ==
    IF Has(s, "raw") THEN NewDateFromString(s)
    ELSE LET iso == [s EXCEPT !.sep = IF @ = " " THEN "T" ELSE @]
         IN NewDateFromString([iso EXCEPT !.tz = ""])

floorToHour(d) == IF d = NaN THEN NaN ELSE d - (d % MS_HOUR)
getHours(d) == (d \div MS_HOUR) % 24
\* Date.getDay(): Sun=0..Sat=6; day 0 of the model is a Monday
getDay(d) == ((d \div MS_DAY) + 1) % 7
\* weekdayMon0 that keeps the index of JS getDay(), Sunday first
weekdaySun0(d) == getDay(d)

weekdayMon0(d) == (getDay(d) + 6) % 7
\* setHours(0, 0, 0, 0)
floorToDay(d) == IF d = NaN THEN NaN ELSE d - (d % MS_DAY)

toHourLabel(h) ==
    LET isAM == h < 12
        hour12 == IF h = 0 THEN 12 ELSE IF h <= 12 THEN h ELSE h - 12
    IN ToString(hour12) \o " " \o (IF isAM THEN "AM" ELSE "PM")

WEEK_LABELS == <<"Mon", "Tue", "Wed", "Thu", "Fri", "Sat", "Sun">>

DefaultStatuses == <<"completed", "confirmed", "active", "upcoming">>

includeStatusesOr(o, default) ==
    IF Has(o, "includeStatuses") THEN o.includeStatuses ELSE default

\* capacityOr1 that defaults an absent capacity only (r.capacity ?? 1)
capacityOrAbsent1(r) == IF Has(r, "capacity") THEN r.capacity ELSE 1

\* r.capacity || 1
capacityOr1(r) == IF Has(r, "capacity") /\ r.capacity # 0 THEN r.capacity ELSE 1

\* InScope that takes a resource without a status for unavailable
InScopeStatusRequired(r, o) ==
    /\ ~(Has(o, "resourceType") /\ o.resourceType # "" /\ r.type # o.resourceType)
    /\ ~(/\ Has(o, "onlyAvailableResources") /\ o.onlyAvailableResources
         /\ (~Has(r, "status") \/ r.status # "available"))

InScope(r, o) ==
    /\ ~(Has(o, "resourceType") /\ o.resourceType # "" /\ r.type # o.resourceType)
    /\ ~(/\ Has(o, "onlyAvailableResources") /\ o.onlyAvailableResources
         /\ Has(r, "status") /\ r.status # "" /\ r.status # "available")

scopedResourcesOf(rs, o) == SelectSeq(rs, LAMBDA r : InScope(r, o))

\* isOpen with the opening hour itself excluded
isOpenAfterStart(h, o) ==
    \/ ~Has(o, "operatingHours")
    \/ (h > o.operatingHours.start /\ h < o.operatingHours.end)

isOpen(h, o) ==
    \/ ~Has(o, "operatingHours")
    \/ (h >= o.operatingHours.start /\ h < o.operatingHours.end)

(***************************************************************************)
(* The hour-by-hour walk `while (t < end) { ... t = chunkEnd; if (t ===    *)
(* chunkStart) break; }`: the chunks it visits, in order.  A walk of more   *)
(* than a day is run through a day at a time: the cursor stops at every    *)
(* hour boundary before `end`, so the walk up to one of them followed by   *)
(* the walk from it visits the same chunks.                                *)
(***************************************************************************)
RECURSIVE HourChunks(_, _, _)
HourChunks(t, end, chunks) ==
    IF ~JsLt(t, end) THEN chunks
    ELSE IF floorToHour(t) + MS_DAY < end
    THEN LET later == floorToHour(t) + MS_DAY
             firstDay == HourChunks(t, later, chunks)
         IN IF firstDay = firstDay THEN HourChunks(later, end, firstDay) ELSE chunks
    ELSE LET hourStart == floorToHour(t)
             hourEnd == hourStart + MS_HOUR
             chunkStart == IF t > hourStart THEN t ELSE hourStart
             chunkEnd == IF end < hourEnd THEN end ELSE hourEnd
             seen == Append(chunks, [hourStart |-> hourStart,
                                     chunkStart |-> chunkStart,
                                     chunkEnd |-> chunkEnd])
         IN IF chunkEnd = chunkStart \/ seen # seen THEN seen
            ELSE HourChunks(chunkEnd, end, seen)

ChunkMinutes(c) == JsMax0(JsMinutes(c.chunkEnd - c.chunkStart))

\* totalRangeMin with every hour counted as open
totalRangeMinAllHours(rs, re, o) ==
    FoldSeq(LAMBDA total, c : total + ChunkMinutes(c), 0, HourChunks(rs, re, <<>>))

totalRangeMinOf(rs, re, o) ==
    FoldSeq(LAMBDA total, c :
                IF isOpen(getHours(c.hourStart), o) THEN total + ChunkMinutes(c) ELSE total,
            0, HourChunks(rs, re, <<>>))

(***************************************************************************)
(* computeUtilizationMetrics: the Map of accumulators, keyed by hour       *)
(* (0..23), weekday (0..6, Monday first) or resource type.  An entry       *)
(* exists once getAcc has touched its key.                                 *)
(***************************************************************************)
NoAcc == [k \in {} |-> 0]
FreshAcc == [bookedMin |-> 0, availMin |-> 0, bookings |-> 0, resourcesCount |-> 0]
getAcc(a, k) == IF k \in DOMAIN a THEN a[k] ELSE FreshAcc

\* getAcc(k).field += amount
AccAdd(a, k, field, amount) ==
    IF k \in DOMAIN a
    THEN [a EXCEPT ![k][field] = JsAdd(@, amount)]
    ELSE [x \in DOMAIN a \cup {k} |->
             IF x = k THEN [FreshAcc EXCEPT ![field] = JsAdd(@, amount)] ELSE a[x]]

\* new Map(scopedResources.map(r => [r.resource_id, r])).get(id): <<r>>, or <<>>
resourceByIdGet(scoped, id) ==
    LET hits == {i \in 1..Len(scoped) : scoped[i].resource_id = id}
    IN IF hits = {} THEN <<>>
       ELSE <<scoped[CHOOSE i \in hits : \A j \in hits : j <= i]>>

GroupKey(groupBy, hourStart) ==
    IF groupBy = "hour" THEN getHours(hourStart) ELSE weekdayMon0(hourStart)

\* AvailChunk that counts every resource as one unit of capacity
AvailChunkUnweighted(a, c, scoped, groupBy, o) ==
    IF isOpen(getHours(c.hourStart), o)
    THEN FoldSeq(LAMBDA a2, r : AccAdd(a2, GroupKey(groupBy, c.hourStart), "availMin",
                                       ChunkMinutes(c)),
                 a, scoped)
    ELSE a

\* one chunk of the hour/weekday denominator walk
AvailChunk(a, c, scoped, groupBy, o) ==
    IF isOpen(getHours(c.hourStart), o)
    THEN FoldSeq(LAMBDA a2, r : AccAdd(a2, GroupKey(groupBy, c.hourStart), "availMin",
                                       ChunkMinutes(c) * capacityOr1(r)),
                 a, scoped)
    ELSE a

\* BookedChunk that takes every hour for open
BookedChunkAnyHour(a, c, groupBy, o) ==
    AccAdd(a, GroupKey(groupBy, c.hourStart), "bookedMin", ChunkMinutes(c))

\* one chunk of a booking's hour/weekday walk
BookedChunk(a, c, groupBy, o) ==
    IF isOpen(getHours(c.hourStart), o)
    THEN AccAdd(a, GroupKey(groupBy, c.hourStart), "bookedMin", ChunkMinutes(c))
    ELSE a

\* ClampStart that leaves the booking's own start in place
ClampStartUnclamped(bs, rs) == bs

ClampStart(bs, rs) == IF JsLt(bs, rs) THEN rs ELSE bs

\* ClampEnd that leaves the booking's own end in place
ClampEndUnclamped(be, re) == be

ClampEnd(be, re) == IF JsGt(be, re) THEN re ELSE be

\* BookingStep whose type path adds the open-hours minutes of the clamped booking only
BookingStepTypeClipped(a, b, scoped, rs, re, groupBy, o, includeStatuses) ==
    IF ~Includes(includeStatuses, b.status) THEN a
    ELSE LET found == resourceByIdGet(scoped, b.resource_id)
         IN IF found = <<>> THEN a
            ELSE LET r == found[1]
                     start == ClampStart(parseDT(b.start_time), rs)
                     end == ClampEnd(parseDT(b.end_time), re)
                     k == IF groupBy = "hour" THEN getHours(start)
                          ELSE IF groupBy = "weekday" THEN weekdayMon0(start)
                          ELSE r.type
                     counted == IF JsGe(start, rs) /\ JsLt(start, re)
                                THEN AccAdd(a, k, "bookings", 1) ELSE a
                 IN IF JsLe(end, start) THEN a
                    ELSE IF groupBy = "type"
                         THEN FoldSeq(LAMBDA a2, c :
                                          IF isOpen(getHours(c.hourStart), o)
                                          THEN AccAdd(a2, r.type, "bookedMin", ChunkMinutes(c))
                                          ELSE a2,
                                      counted, HourChunks(start, end, <<>>))
                         ELSE FoldSeq(LAMBDA a2, c : BookedChunk(a2, c, groupBy, o),
                                      counted, HourChunks(start, end, <<>>))

\* one iteration of `for (const b of bookings)`
BookingStep(a, b, scoped, rs, re, groupBy, o, includeStatuses) ==
    IF ~Includes(includeStatuses, b.status) THEN a
    ELSE LET found == resourceByIdGet(scoped, b.resource_id)
         IN IF found = <<>> THEN a
            ELSE LET r == found[1]
                     bs == parseDT(b.start_time)
                     be == parseDT(b.end_time)
                     start == ClampStart(bs, rs)
                     end == ClampEnd(be, re)
                     countTime == ClampStart(bs, rs)
                     k == IF groupBy = "hour" THEN getHours(countTime)
                          ELSE IF groupBy = "weekday" THEN weekdayMon0(countTime)
                          ELSE r.type
                     counted == IF JsGe(countTime, rs) /\ JsLt(countTime, re)
                                THEN AccAdd(a, k, "bookings", 1) ELSE a
                 IN IF JsLe(end, start) THEN a
                    ELSE IF groupBy = "type"
                         THEN AccAdd(counted, r.type, "bookedMin", JsMinutes(JsSub(end, start)))
                         ELSE FoldSeq(LAMBDA a2, c : BookedChunk(a2, c, groupBy, o),
                                      counted, HourChunks(start, end, <<>>))

\* computeUtilizationMetrics whose type buckets come into being with a booking only:
\* no pass over the scoped resources for resourcesCount and availMin
computeUtilizationMetricsLazyTypes(bs, rsrc, rs, re, groupBy, o) ==
    LET includeStatuses == includeStatusesOr(o, DefaultStatuses)
        scoped == scopedResourcesOf(rsrc, o)
        avail == IF groupBy = "type" THEN NoAcc
                 ELSE FoldSeq(LAMBDA a, c : AvailChunk(a, c, scoped, groupBy, o),
                              NoAcc, HourChunks(rs, re, <<>>))
    IN FoldSeq(LAMBDA a, b : BookingStep(a, b, scoped, rs, re, groupBy, o, includeStatuses),
               avail, bs)

computeUtilizationMetrics(bs, rsrc, rs, re, groupBy, o) ==
    LET includeStatuses == includeStatusesOr(o, DefaultStatuses)
        scoped == scopedResourcesOf(rsrc, o)
        totalRangeMin == totalRangeMinOf(rs, re, o)
        counted == IF groupBy = "type"
                   THEN FoldSeq(LAMBDA a, r : AccAdd(a, r.type, "resourcesCount", 1),
                                NoAcc, scoped)
                   ELSE NoAcc
        avail == IF groupBy = "type"
                 THEN FoldSeq(LAMBDA a, r : AccAdd(a, r.type, "availMin",
                                                   totalRangeMin * capacityOr1(r)),
                              counted, scoped)
                 ELSE FoldSeq(LAMBDA a, c : AvailChunk(a, c, scoped, groupBy, o),
                              counted, HourChunks(rs, re, <<>>))
    IN FoldSeq(LAMBDA a, b : BookingStep(a, b, scoped, rs, re, groupBy, o, includeStatuses),
               avail, bs)

(***************************************************************************)
(* The percentage of a bucket:                                             *)
(*   util = availMin <= 0 ? 0 : Math.min(100, Math.max(0, b / a * 100))    *)
(*   Math.round(util)                                                      *)
(* Division by zero gives NaN (0/0) or an infinity, which the clamps turn  *)
(* into 0 or 100; Math.round rounds a half up.                             *)
(***************************************************************************)
\* ClampRound without Math.min(100, ...)
ClampRoundNoUpperClamp(bookedMin, availMin) ==
    IF bookedMin = NaN \/ availMin = NaN THEN NaN
    ELSE IF availMin = 0
         THEN (IF bookedMin = 0 THEN NaN ELSE IF bookedMin > 0 THEN 100 ELSE 0)
         ELSE IF (bookedMin < 0) # (availMin < 0) \/ bookedMin = 0 THEN 0
              ELSE LET b == IF bookedMin < 0 THEN -bookedMin ELSE bookedMin
                       a == IF availMin < 0 THEN -availMin ELSE availMin
                   IN (200 * b + a) \div (2 * a)

ClampRound(bookedMin, availMin) ==
    IF bookedMin = NaN \/ availMin = NaN THEN NaN
    ELSE IF availMin = 0
         THEN (IF bookedMin = 0 THEN NaN ELSE IF bookedMin > 0 THEN 100 ELSE 0)
         ELSE IF (bookedMin < 0) # (availMin < 0) \/ bookedMin = 0 THEN 0
              ELSE LET b == IF bookedMin < 0 THEN -bookedMin ELSE bookedMin
                       a == IF availMin < 0 THEN -availMin ELSE availMin
                   IN Min(100, (200 * b + a) \div (2 * a))

\* UtilPct guarding only a negative denominator
UtilPctNegativeGuard(bookedMin, availMin) ==
    IF JsLt(availMin, 0) THEN 0 ELSE ClampRound(bookedMin, availMin)

UtilPct(bookedMin, availMin) ==
    IF JsLe(availMin, 0) THEN 0 ELSE ClampRound(bookedMin, availMin)

\* CHART 1: 24 points, entry h + 1 is hour h
DailyOfAcc(a) ==
    [i \in 1..24 |->
        LET x == getAcc(a, i - 1)
        IN [hour |-> toHourLabel(i - 1), utilization |-> UtilPct(x.bookedMin, x.availMin)]]

buildDailyUtilizationTrend(bs, rsrc, rs, re, o) ==
    DailyOfAcc(computeUtilizationMetrics(bs, rsrc, rs, re, "hour", o))

\* CHART 2: Mon..Sun, entry i + 1 is weekday i
WeeklyOfAcc(a) ==
    [i \in 1..7 |->
        LET x == getAcc(a, i - 1)
        IN [day |-> WEEK_LABELS[i], utilization |-> UtilPct(x.bookedMin, x.availMin),
            bookings |-> x.bookings]]

buildWeeklyUtilizationAndBookings(bs, rsrc, rs, re, o) ==
    WeeklyOfAcc(computeUtilizationMetrics(bs, rsrc, rs, re, "weekday", o))

(***************************************************************************)
(* CHART 3: buildUtilizationStatusByType.                                  *)
(***************************************************************************)
DefaultThresholds == [optimalMax |-> 60, busyMax |-> 85]

\* Map.set(k, v)
MapSet(m, k, v) ==
    IF k \in DOMAIN m THEN [m EXCEPT ![k] = v]
    ELSE [x \in DOMAIN m \cup {k} |-> IF x = k THEN v ELSE m[x]]

\* the open-hours minutes of a clamped booking (the per-booking hour walk)
OpenMinutes(start, end, o) ==
    FoldSeq(LAMBDA minutes, c :
                IF isOpen(getHours(c.hourStart), o) THEN minutes + ChunkMinutes(c)
                ELSE minutes,
            0, HourChunks(start, end, <<>>))

\* one iteration of `for (const b of bookings)` of the per-resource sums
BookedByResourceStep(m, b, rs, re, o, includeStatuses) ==
    IF ~Includes(includeStatuses, b.status) THEN m
    ELSE IF b.resource_id \notin DOMAIN m THEN m
    ELSE LET start == ClampStart(parseDT(b.start_time), rs)
             end == ClampEnd(parseDT(b.end_time), re)
         IN IF JsLe(end, start) THEN m
            ELSE MapSet(m, b.resource_id, m[b.resource_id] + OpenMinutes(start, end, o))

bookedByResourceOf(bs, scoped, rs, re, o, includeStatuses) ==
    FoldSeq(LAMBDA m, b : BookedByResourceStep(m, b, rs, re, o, includeStatuses),
            FoldSeq(LAMBDA m, r : MapSet(m, r.resource_id, 0), NoAcc, scoped),
            bs)

\* util > threshold, for util = totalRangeMin <= 0 ? 0 : min(100, max(0, b / t * 100))
UtilAbove(bookedMin, totalRangeMin, threshold) ==
    IF totalRangeMin <= 0 \/ bookedMin <= 0 THEN 0 > threshold
    ELSE IF bookedMin >= totalRangeMin THEN 100 > threshold
    ELSE 100 * bookedMin > threshold * totalRangeMin

BucketOf(bookedMin, totalRangeMin, thresholds) ==
    IF UtilAbove(bookedMin, totalRangeMin, thresholds.busyMax) THEN "over"
    ELSE IF UtilAbove(bookedMin, totalRangeMin, thresholds.optimalMax) THEN "busy"
    ELSE "optimal"

NoCount == [total |-> 0, optimal |-> 0, busy |-> 0, over |-> 0]

\* one iteration of `for (const r of scopedResources)` filling counts
CountStep(counts, r, booked, totalRangeMin, thresholds) ==
    LET bucket == BucketOf(booked[r.resource_id], totalRangeMin, thresholds)
        c == IF r.type \in DOMAIN counts THEN counts[r.type] ELSE NoCount
    IN MapSet(counts, r.type, [c EXCEPT !.total = @ + 1, ![bucket] = @ + 1])

(***************************************************************************)
(* Math.round((n / total) * 100) in IEEE 754 double arithmetic, for        *)
(* 0 <= n <= total < 2048.  A double is held as its exponent and its       *)
(* significand in three limbs: the value is                                *)
(*   (hi * 2^40 + mid * 2^20 + lo) * 2^-(exp + 52).                        *)
(* The division and the multiplication each round to 53 significant bits,  *)
(* ties to even; Math.round rounds to the nearest integer, a half up.      *)
(***************************************************************************)
Limb == 1048576

\* e with total <= n * 2^e < 2 * total
RECURSIVE BinaryExponent(_, _)
BinaryExponent(n, total) == IF n >= total THEN 0 ELSE 1 + BinaryExponent(2 * n, total)

\* the double n / total
DoubleQuotient(n, total) ==
    LET e == BinaryExponent(n, total)
        c == n * (2 ^ e)
        d0 == (c * 4096) \div total
        r0 == (c * 4096) % total
        d1 == (r0 * Limb) \div total
        r1 == (r0 * Limb) % total
        d2 == (r1 * Limb) \div total
        r2 == (r1 * Limb) % total
        up == 2 * r2 > total \/ (2 * r2 = total /\ d2 % 2 = 1)
        m2 == d2 + (IF up THEN 1 ELSE 0)
        m1 == d1 + (m2 \div Limb)
        m0 == d0 + (m1 \div Limb)
    IN [exp |-> e, hi |-> m0, mid |-> m1 % Limb, lo |-> m2 % Limb]

\* the double q * 100
DoubleTimes100(q) ==
    LET v2 == q.lo * 100
        v1 == q.mid * 100 + (v2 \div Limb)
        h == q.hi * 100 + (v1 \div Limb)
        l1 == v1 % Limb
        l2 == v2 % Limb
        s == IF h >= 524288 THEN 7 ELSE 6
        low == l2 % (2 ^ s)
        half == 2 ^ (s - 1)
        up == low > half \/ (low = half /\ (l2 \div (2 ^ s)) % 2 = 1)
        n2 == l2 - low + (IF up THEN 2 ^ s ELSE 0)
        n1 == l1 + (n2 \div Limb)
        n0 == h + (n1 \div Limb)
    IN [exp |-> q.exp, hi |-> n0, mid |-> n1 % Limb, lo |-> n2 % Limb]

\* Math.round(x) for a double 0 < x <= 100
MathRound(x) ==
    LET k == x.exp + 12
    IN (x.hi \div (2 ^ k)) + ((x.hi \div (2 ^ (k - 1))) % 2)

\* Math.round((n / total) * 100), for 0 <= n <= total
RoundShare(n, total) ==
    IF n = 0 THEN 0 ELSE MathRound(DoubleTimes100(DoubleQuotient(n, total)))

StatusRow(type, c) ==
    LET total == IF c.total # 0 THEN c.total ELSE 1
        optimal == RoundShare(c.optimal, total)
        busy == RoundShare(c.busy, total)
        over == Min(100, Max(0, 100 - optimal - busy))
    IN [type |-> type, optimal |-> optimal, busy |-> busy, overUtilized |-> over]

\* the resource types of the model in localeCompare order
TypeOrder == <<"lab", "study-room">>

StatusAcc(bs, rsrc, rs, re, o) ==
    LET thresholds == IF Has(o, "thresholds") THEN o.thresholds ELSE DefaultThresholds
        includeStatuses == includeStatusesOr(o, DefaultStatuses)
        scoped == scopedResourcesOf(rsrc, o)
        totalRangeMin == totalRangeMinOf(rs, re, o)
        booked == bookedByResourceOf(bs, scoped, rs, re, o, includeStatuses)
    IN [totalRangeMin |-> totalRangeMin,
        bookedByResource |-> booked,
        counts |-> FoldSeq(LAMBDA counts, r :
                               CountStep(counts, r, booked, totalRangeMin, thresholds),
                           NoAcc, scoped)]

StatusRowsOf(counts) ==
    LET present == SelectSeq(TypeOrder, LAMBDA t : t \in DOMAIN counts)
    IN [i \in 1..Len(present) |-> StatusRow(present[i], counts[present[i]])]

buildUtilizationStatusByType(bs, rsrc, rs, re, o) ==
    StatusRowsOf(StatusAcc(bs, rsrc, rs, re, o).counts)

(***************************************************************************)
(* buildWeeklyUsageHeatmap: weekday x band.                                *)
(***************************************************************************)
HeatmapDefaultStatuses == <<"completed", "confirmed", "active">>

DefaultBands ==
    [i \in 1..14 |->
        [label |-> ToString(7 + i) \o "-" \o ToString(8 + i),
         startHour |-> 7 + i, endHour |-> 8 + i]]

\* `for (d = first; d < end; d.setDate(d.getDate() + 1))`: the days visited
RECURSIVE DaysFrom(_, _)
DaysFrom(d, end) ==
    IF ~JsLt(d, end) THEN <<>> ELSE <<d>> \o DaysFrom(d + MS_DAY, end)

\* setHours(h, 0, 0, 0) on day d
AtHour(d, h) == d + h * MS_HOUR

ZeroMatrix(rows, cols) == [i \in 1..rows |-> [j \in 1..cols |-> 0]]

\* the available minutes one day adds to its weekday's row of the matrix
HeatAvailDay(m, d, bands, rs, re, resourceCount) ==
    LET nextDay == d + MS_DAY
        dayWindowStart == IF d < rs THEN rs ELSE d
        dayWindowEnd == IF nextDay > re THEN re ELSE nextDay
        wd == weekdayMon0(d)
    IN IF dayWindowEnd <= dayWindowStart THEN m
       ELSE FoldSeq(LAMBDA m2, bi :
                        LET start == Max(AtHour(d, bands[bi].startHour), dayWindowStart)
                            end == Min(AtHour(d, bands[bi].endHour), dayWindowEnd)
                        IN IF end > start
                           THEN [m2 EXCEPT ![wd + 1][bi] =
                                     @ + ((end - start) \div MS_MIN) * resourceCount]
                           ELSE m2,
                    m, [bi \in 1..Len(bands) |-> bi])

\* HeatBookedDay that charges a booking on the day it starts only
HeatBookedDayOfStart(m, d, bands, start0, end0) ==
    LET dayClipEnd == IF end0 < d + MS_DAY THEN end0 ELSE d + MS_DAY
        wd == weekdayMon0(d)
    IN IF d # floorToDay(start0) \/ dayClipEnd <= start0 THEN m
       ELSE FoldSeq(LAMBDA m2, bi :
                        LET s == Max(AtHour(d, bands[bi].startHour), start0)
                            e == Min(AtHour(d, bands[bi].endHour), dayClipEnd)
                        IN IF e > s
                           THEN [m2 EXCEPT ![wd + 1][bi] = @ + ((e - s) \div MS_MIN)]
                           ELSE m2,
                    m, [bi \in 1..Len(bands) |-> bi])

\* the booked minutes one day of one clamped booking adds
HeatBookedDay(m, d, bands, start0, end0) ==
    LET dayClipStart == IF start0 > d THEN start0 ELSE d
        dayClipEnd == IF end0 < d + MS_DAY THEN end0 ELSE d + MS_DAY
        wd == weekdayMon0(d)
    IN IF dayClipEnd <= dayClipStart THEN m
       ELSE FoldSeq(LAMBDA m2, bi :
                        LET s == Max(AtHour(d, bands[bi].startHour), dayClipStart)
                            e == Min(AtHour(d, bands[bi].endHour), dayClipEnd)
                        IN IF e > s
                           THEN [m2 EXCEPT ![wd + 1][bi] = @ + ((e - s) \div MS_MIN)]
                           ELSE m2,
                    m, [bi \in 1..Len(bands) |-> bi])

HeatBookingStep(m, b, resourceIds, bands, rs, re, includeStatuses) ==
    IF ~Includes(includeStatuses, b.status) THEN m
    ELSE IF b.resource_id \notin resourceIds THEN m
    ELSE LET start0 == ClampStart(parseDT(b.start_time), rs)
             end0 == ClampEnd(parseDT(b.end_time), re)
         IN IF JsLe(end0, start0) THEN m
            ELSE FoldSeq(LAMBDA m2, d : HeatBookedDay(m2, d, bands, start0, end0),
                         m, DaysFrom(floorToDay(start0), end0))

HeatmapAcc(bs, rsrc, rs, re, o) ==
    LET includeStatuses == includeStatusesOr(o, HeatmapDefaultStatuses)
        bands == IF Has(o, "bands") THEN o.bands ELSE DefaultBands
        scoped == scopedResourcesOf(rsrc, o)
        resourceIds == {scoped[i].resource_id : i \in 1..Len(scoped)}
    IN [bands |-> bands,
        availMin |-> FoldSeq(LAMBDA m, d : HeatAvailDay(m, d, bands, rs, re, Len(scoped)),
                             ZeroMatrix(7, Len(bands)), DaysFrom(floorToDay(rs), re)),
        bookedMin |-> FoldSeq(LAMBDA m, b : HeatBookingStep(m, b, resourceIds, bands,
                                                            rs, re, includeStatuses),
                              ZeroMatrix(7, Len(bands)), bs)]

HeatmapOfAcc(a) ==
    [bands |-> [bi \in 1..Len(a.bands) |-> a.bands[bi].label],
     rows |-> [i \in 1..7 |->
                  [day |-> WEEK_LABELS[i],
                   cells |-> [bi \in 1..Len(a.bands) |->
                                 [band |-> a.bands[bi].label,
                                  utilization |-> UtilPct(a.bookedMin[i][bi],
                                                          a.availMin[i][bi])]]]]]

buildWeeklyUsageHeatmap(bs, rsrc, rs, re, o) ==
    HeatmapOfAcc(HeatmapAcc(bs, rsrc, rs, re, o))

(***************************************************************************)
(* roomAnalyticsUtils.ts: buildUtilizationByRoomName and                   *)
(* buildRoomTimebandHeatmap.                                               *)
(***************************************************************************)
RoomDefaultStatuses == <<"completed", "confirmed", "active", "upcoming", "upcomming">>

\* parseDT of roomAnalyticsUtils.ts: the empty string is an Invalid Date at once
parseDTRoom(s) ==
    IF s = [raw |-> ""] THEN NaN
    ELSE IF Has(s, "raw") THEN NewDateFromString(s)
    ELSE LET iso == [s EXCEPT !.sep = IF @ = " " THEN "T" ELSE @]
         IN NewDateFromString([iso EXCEPT !.tz = ""])

roomNameOf(r, o) ==
    LET nameKey == IF Has(o, "nameKey") THEN o.nameKey ELSE "name"
    IN IF nameKey = "name" THEN (IF r.name # "" THEN r.name ELSE r.resource_id)
       ELSE r.resource_id

\* one iteration of `for (const b of bookings)` of buildUtilizationByRoomName
BookedByIdStep(m, b, rs, re, o, includeStatuses) ==
    IF ~Includes(includeStatuses, b.status) THEN m
    ELSE IF b.resource_id \notin DOMAIN m THEN m
    ELSE LET bs == parseDTRoom(b.start_time)
             be == parseDTRoom(b.end_time)
             start == ClampStart(bs, rs)
             end == ClampEnd(be, re)
         IN IF bs = NaN \/ be = NaN THEN m
            ELSE IF JsLe(end, start) THEN m
            ELSE MapSet(m, b.resource_id, m[b.resource_id] + OpenMinutes(start, end, o))

RoomNameAcc(bs, rsrc, rs, re, o) ==
    LET includeStatuses == includeStatusesOr(o, RoomDefaultStatuses)
        scoped == scopedResourcesOf(rsrc, o)
    IN [scoped |-> scoped,
        totalRangeMin |-> totalRangeMinOf(rs, re, o),
        bookedById |-> FoldSeq(LAMBDA m, b : BookedByIdStep(m, b, rs, re, o, includeStatuses),
                               FoldSeq(LAMBDA m, r : MapSet(m, r.resource_id, 0),
                                       NoAcc, scoped),
                               bs)]

RoomEntry(r, a, o) ==
    LET bookedMin == a.bookedById[r.resource_id]
        availableMin == a.totalRangeMin * capacityOr1(r)
    IN [roomId |-> r.resource_id,
        roomName |-> roomNameOf(r, o),
        utilization |-> UtilPct(bookedMin, availableMin),
        bookedMinutes |-> bookedMin,
        availableMinutes |-> availableMin]

\* InsertDesc that keeps the order of arrival (no sort)
InsertAtEnd(sorted, e) == Append(sorted, e)

\* Array.prototype.sort((a, b) => b.utilization - a.utilization): stable, descending
RECURSIVE InsertDesc(_, _)
InsertDesc(sorted, e) ==
    IF sorted = <<>> THEN <<e>>
    ELSE IF Head(sorted).utilization >= e.utilization
         THEN <<Head(sorted)>> \o InsertDesc(Tail(sorted), e)
         ELSE <<e>> \o sorted

SortByUtilizationDesc(entries) == FoldSeq(InsertDesc, <<>>, entries)

RoomNameOfAcc(a, o) ==
    SortByUtilizationDesc(
        SelectSeq([i \in 1..Len(a.scoped) |-> RoomEntry(a.scoped[i], a, o)],
                  LAMBDA e : e.roomName # "undefined"))

buildUtilizationByRoomName(bs, rsrc, rs, re, o) ==
    RoomNameOfAcc(RoomNameAcc(bs, rsrc, rs, re, o), o)

\* the minutes one day adds to the per-band denominator of ONE room
RoomAvailDay(avail, d, bands, rs, re) ==
    LET nextDay == d + MS_DAY
        dayWindowStart == IF d < rs THEN rs ELSE d
        dayWindowEnd == IF nextDay > re THEN re ELSE nextDay
    IN IF dayWindowEnd <= dayWindowStart THEN avail
       ELSE [i \in 1..Len(bands) |->
                LET s == Max(AtHour(d, bands[i].startHour), dayWindowStart)
                    e == Min(AtHour(d, bands[i].endHour), dayWindowEnd)
                IN IF e > s THEN avail[i] + ((e - s) \div MS_MIN) ELSE avail[i]]

\* the minutes one day of one clamped booking adds to its room's row
RoomBookedDay(row, d, bands, start0, end0) ==
    [i \in 1..Len(bands) |->
        LET s == Max(AtHour(d, bands[i].startHour), start0)
            e == Min(AtHour(d, bands[i].endHour), end0)
        IN IF e > s THEN row[i] + ((e - s) \div MS_MIN) ELSE row[i]]

RoomBookingStep(m, b, bands, rs, re, includeStatuses) ==
    IF ~Includes(includeStatuses, b.status) THEN m
    ELSE IF b.resource_id \notin DOMAIN m THEN m
    ELSE LET bsRaw == parseDTRoom(b.start_time)
             beRaw == parseDTRoom(b.end_time)
             start0 == ClampStart(bsRaw, rs)
             end0 == ClampEnd(beRaw, re)
         IN IF bsRaw = NaN \/ beRaw = NaN THEN m
            ELSE IF JsLe(end0, start0) THEN m
            ELSE MapSet(m, b.resource_id,
                        FoldSeq(LAMBDA row, d : RoomBookedDay(row, d, bands, start0, end0),
                                m[b.resource_id], DaysFrom(floorToDay(start0), end0)))

RoomHeatAcc(bs, rsrc, rs, re, o) ==
    LET includeStatuses == includeStatusesOr(o, RoomDefaultStatuses)
        bands == IF Has(o, "bands") THEN o.bands ELSE <<>>
        scoped == scopedResourcesOf(rsrc, o)
        zeros == [i \in 1..Len(bands) |-> 0]
    IN [bands |-> bands,
        scoped |-> scoped,
        availMinPerBand |-> FoldSeq(LAMBDA avail, d : RoomAvailDay(avail, d, bands, rs, re),
                                    zeros, DaysFrom(floorToDay(rs), re)),
        bookedMinByRoomBand |->
            FoldSeq(LAMBDA m, b : RoomBookingStep(m, b, bands, rs, re, includeStatuses),
                    FoldSeq(LAMBDA m, r : MapSet(m, r.resource_id, zeros), NoAcc, scoped),
                    bs)]

RoomHeatOfAcc(a, o) ==
    [bands |-> [i \in 1..Len(a.bands) |-> a.bands[i].label],
     rooms |-> [k \in 1..Len(a.scoped) |->
                   LET r == a.scoped[k]
                   IN [roomId |-> r.resource_id,
                       roomName |-> roomNameOf(r, o),
                       cells |-> [i \in 1..Len(a.bands) |->
                                     [band |-> a.bands[i].label,
                                      utilization |->
                                          UtilPct(a.bookedMinByRoomBand[r.resource_id][i],
                                                  a.availMinPerBand[i] * capacityOr1(r))]]]]]

buildRoomTimebandHeatmap(bs, rsrc, rs, re, o) ==
    RoomHeatOfAcc(RoomHeatAcc(bs, rsrc, rs, re, o), o)

(***************************************************************************)
(* Inputs.                                                                 *)
(***************************************************************************)
MaxBookings == 2
MaxDays == 2

TS(date, hour, minute) == [date |-> date, sep |-> "T", time |-> hour * 60 + minute, tz |-> ""]
At(date, hour, minute) == date * MS_DAY + (hour * 60 + minute) * MS_MIN
Booking(id, st, s, e) == [resource_id |-> id, start_time |-> s, end_time |-> e, status |-> st]

R1 == [resource_id |-> "r1", type |-> "study-room", name |-> "Room 1"]
R2 == [resource_id |-> "r2", type |-> "lab", name |-> "", status |-> "maintenance",
       capacity |-> 2]
R3 == [resource_id |-> "r3", type |-> "study-room", name |-> "undefined",
       status |-> "available", capacity |-> -1]

ResourceLists == {<<>>, <<R1>>, <<R1, R2>>, <<R1, R3>>}

BookingPool == <<
    Booking("r1", "confirmed", TS(0, 9, 0), TS(0, 11, 0)),
    Booking("r1", "active", [TS(0, 10, 0) EXCEPT !.sep = " ", !.tz = "Z"],
                            [TS(0, 10, 30) EXCEPT !.sep = " ", !.tz = "Z"]),
    Booking("r1", "upcoming", TS(0, 19, 30), TS(0, 20, 30)),
    Booking("r2", "completed", [TS(0, 23, 0) EXCEPT !.tz = "+05:30"],
                               [TS(1, 1, 0) EXCEPT !.tz = "+05:30"]),
    Booking("r1", "confirmed", TS(0, 9, 0), [raw |-> "soon"]),
    Booking("r1", "confirmed", [raw |-> ""], TS(0, 11, 0)),
    Booking("r1", "confirmed", TS(0, 6, 0), TS(0, 7, 0)),
    Booking("r1", "cancelled", TS(0, 9, 0), TS(0, 10, 0)),
    Booking("r1", "confirmed", TS(0, 10, 0), TS(0, 9, 0)) >>

RECURSIVE SeqOfIndices(_, _)
SeqOfIndices(pool, idx) ==
    IF idx = {} THEN <<>>
    ELSE LET i == CHOOSE x \in idx : \A y \in idx : x <= y
         IN <<pool[i]>> \o SeqOfIndices(pool, idx \ {i})

BookingLists ==
    {SeqOfIndices(BookingPool, idx) :
        idx \in {x \in SUBSET (1..Len(BookingPool)) : Cardinality(x) <= MaxBookings}}

Ranges ==
    {<<At(0, 0, 0), At(n, 0, 0)>> : n \in 1..MaxDays}
    \cup {<<At(0, 8, 30), At(0, 10, 30)>>,
          <<At(0, 10, 30), At(0, 8, 30)>>}

OptionsPool ==
    {NoOpts,
     [operatingHours |-> [start |-> 8, end |-> 20]],
     [operatingHours |-> [start |-> 8, end |-> 20], resourceType |-> "study-room",
      onlyAvailableResources |-> TRUE],
     [operatingHours |-> [start |-> 0, end |-> 6], resourceType |-> "lab"],
     [includeStatuses |-> <<"cancelled", "confirmed">>,
      bands |-> <<[label |-> "night", startHour |-> 0, endHour |-> 8],
                  [label |-> "day", startHour |-> 8, endHour |-> 24]>>,
      nameKey |-> "resource_id"]}

Idle == pc = "idle" /\ call = "none" /\ acc = <<>> /\ out = <<>>

Init ==
    /\ bookings \in BookingLists
    /\ resources \in ResourceLists
    /\ \E r \in Ranges : rangeStart = r[1] /\ rangeEnd = r[2]
    /\ opts \in OptionsPool
    /\ Idle

\* DateArgAfter for a builder that works on the argument itself (`const dayStart =
\* rangeStart; dayStart.setHours(0, 0, 0, 0)`, `let t = rangeStart` and floorToHour
\* setting the minutes of its argument)
DateArgAliased(name, d) ==
    IF name \in {"heatmap", "roomHeatmap"} THEN floorToDay(d) ELSE floorToHour(d)

\* the Date object the caller passed as rangeStart or rangeEnd, after the call `name`:
\* every builder copies it (`new Date(rangeStart)`, and floorToHour's `new Date(d)`)
\* before setHours, setMinutes or setDate, so it holds what it held
DateArgAfter(name, d) == d

\* the call returns; the bookings and resources arrays are only read (filter, map and
\* Array.from build new arrays, and the sorts work on those), opts is only read
Return(name, a, o) ==
    /\ pc' = "returned" /\ call' = name /\ acc' = a /\ out' = o
    /\ rangeStart' = DateArgAfter(name, rangeStart)
    /\ rangeEnd' = DateArgAfter(name, rangeEnd)
    /\ UNCHANGED <<bookings, resources, opts>>

CallMetrics(groupBy) ==
    /\ pc = "idle"
    /\ LET a == computeUtilizationMetrics(bookings, resources, rangeStart, rangeEnd, groupBy, opts)
       IN Return(groupBy, a, a)

CallDaily ==
    /\ pc = "idle"
    /\ LET a == computeUtilizationMetrics(bookings, resources, rangeStart, rangeEnd, "hour", opts)
       IN Return("daily", a, DailyOfAcc(a))

CallWeekly ==
    /\ pc = "idle"
    /\ LET a == computeUtilizationMetrics(bookings, resources, rangeStart, rangeEnd, "weekday", opts)
       IN Return("weekly", a, WeeklyOfAcc(a))

\* the caller drops the result; the inputs are still there for the next call
Discard ==
    /\ pc = "returned"
    /\ pc' = "idle" /\ call' = "none" /\ acc' = <<>> /\ out' = <<>>
    /\ UNCHANGED inputs

CallStatusByType ==
    /\ pc = "idle"
    /\ LET a == StatusAcc(bookings, resources, rangeStart, rangeEnd, opts)
       IN Return("status", a, StatusRowsOf(a.counts))

CallWeeklyHeatmap ==
    /\ pc = "idle"
    /\ LET a == HeatmapAcc(bookings, resources, rangeStart, rangeEnd, opts)
       IN Return("heatmap", a, HeatmapOfAcc(a))

CallRoomName ==
    /\ pc = "idle"
    /\ LET a == RoomNameAcc(bookings, resources, rangeStart, rangeEnd, opts)
       IN Return("roomName", a, RoomNameOfAcc(a, opts))

CallRoomHeatmap ==
    /\ pc = "idle"
    /\ LET a == RoomHeatAcc(bookings, resources, rangeStart, rangeEnd, opts)
       IN Return("roomHeatmap", a, RoomHeatOfAcc(a, opts))

Next ==
    \/ \E g \in {"hour", "weekday", "type"} : CallMetrics(g)
    \/ CallDaily
    \/ CallWeekly
    \/ CallStatusByType
    \/ CallWeeklyHeatmap
    \/ CallRoomName
    \/ CallRoomHeatmap
    \/ Discard

Spec == Init /\ [][Next]_vars

(***************************************************************************)
(* SpecStatus: one resource type with up to MaxTypeResources rooms over    *)
(* the range 08:00-09:00; the first nOptimal rooms have no booking, the    *)
(* next nBusy are booked 45 minutes (75%), the rest the whole hour (100%). *)
(***************************************************************************)
MaxTypeResources == 8

LabRoom(i) == [resource_id |-> "r" \o ToString(i), type |-> "lab",
               name |-> "Lab " \o ToString(i), capacity |-> 1]

StatusSplits ==
    {sp \in (0..MaxTypeResources) \X (0..MaxTypeResources) \X (0..MaxTypeResources) :
        sp[1] + sp[2] + sp[3] \in 1..MaxTypeResources}

InitStatus ==
    /\ \E sp \in StatusSplits :
          /\ resources = [i \in 1..(sp[1] + sp[2] + sp[3]) |-> LabRoom(i)]
          /\ bookings = [j \in 1..(sp[2] + sp[3]) |->
                            Booking("r" \o ToString(sp[1] + j), "confirmed", TS(0, 8, 0),
                                    IF j <= sp[2] THEN TS(0, 8, 45) ELSE TS(0, 9, 0))]
    /\ rangeStart = At(0, 8, 0) /\ rangeEnd = At(0, 9, 0)
    /\ opts = NoOpts
    /\ Idle

SpecStatus == InitStatus /\ [][Next]_vars

(***************************************************************************)
(* SpecA (scenario A): one resource of capacity 1, operating hours 8-20,   *)
(* the range is one calendar day, one confirmed booking of whole hours     *)
(* [s, e) with 8 <= s < e <= 20 on that day.                               *)
(***************************************************************************)
InitA ==
    /\ resources = <<[resource_id |-> "r1", type |-> "study-room", name |-> "Room 1",
                      capacity |-> 1]>>
    /\ opts = [operatingHours |-> [start |-> 8, end |-> 20]]
    /\ \E d \in 0..(MaxDays - 1), s \in 8..19 : \E e \in (s + 1)..20 :
          /\ rangeStart = At(d, 0, 0) /\ rangeEnd = At(d + 1, 0, 0)
          /\ bookings = <<Booking("r1", "confirmed", TS(d, s, 0), TS(d, e, 0))>>
    /\ Idle

SpecA == InitA /\ [][Next]_vars

(***************************************************************************)
(* SpecB (scenario B): n study rooms of capacity 1, operating hours 8-9,   *)
(* a range of whole days from day 0, one booking 08:00-09:00 on day 0 of   *)
(* one of the rooms.                                                       *)
(***************************************************************************)
MaxScenarioRooms == 3

StudyRoom(i) == [resource_id |-> "r" \o ToString(i), type |-> "study-room",
                 name |-> "Room " \o ToString(i), capacity |-> 1]

InitB ==
    /\ \E n \in 1..MaxScenarioRooms, days \in 1..MaxDays : \E k \in 1..n :
          /\ resources = [i \in 1..n |-> StudyRoom(i)]
          /\ rangeStart = At(0, 0, 0) /\ rangeEnd = At(days, 0, 0)
          /\ bookings = <<Booking("r" \o ToString(k), "confirmed", TS(0, 8, 0), TS(0, 9, 0))>>
    /\ opts = [operatingHours |-> [start |-> 8, end |-> 9]]
    /\ Idle

SpecB == InitB /\ [][Next]_vars

(***************************************************************************)
(* What a returned call exposes to the properties below.                   *)
(***************************************************************************)
Builders == {"daily", "weekly", "status", "heatmap", "roomName", "roomHeatmap"}
Returned(name) == pc = "returned" /\ call = name

\* every percentage of the returned structure
Percentages ==
    IF call \in {"daily", "weekly", "roomName"}
    THEN {out[i].utilization : i \in 1..Len(out)}
    ELSE IF call = "status"
    THEN UNION {{out[i].optimal, out[i].busy, out[i].overUtilized} : i \in 1..Len(out)}
    ELSE IF call = "heatmap"
    THEN UNION {{out.rows[i].cells[j].utilization : j \in 1..Len(out.rows[i].cells)} :
                   i \in 1..Len(out.rows)}
    ELSE IF call = "roomHeatmap"
    THEN UNION {{out.rooms[i].cells[j].utilization : j \in 1..Len(out.rooms[i].cells)} :
                   i \in 1..Len(out.rooms)}
    ELSE {}

\* the accumulators the call `name` builds from the given inputs
AccOf(name, bs, rsrc, rs, re, o) ==
    CASE name \in {"hour", "weekday", "type"} ->
             computeUtilizationMetrics(bs, rsrc, rs, re, name, o)
      [] name = "daily" -> computeUtilizationMetrics(bs, rsrc, rs, re, "hour", o)
      [] name = "weekly" -> computeUtilizationMetrics(bs, rsrc, rs, re, "weekday", o)
      [] name = "status" -> StatusAcc(bs, rsrc, rs, re, o)
      [] name = "heatmap" -> HeatmapAcc(bs, rsrc, rs, re, o)
      [] name = "roomName" -> RoomNameAcc(bs, rsrc, rs, re, o)
      [] name = "roomHeatmap" -> RoomHeatAcc(bs, rsrc, rs, re, o)

\* the options with one more field set
WithOption(o, field, value) ==
    [f \in DOMAIN o \cup {field} |-> IF f = field THEN value ELSE o[f]]

(***************************************************************************)
(* C1: every percentage a builder returns is an integer p with             *)
(* 0 <= p <= 100, never NaN, also when overlapping bookings of one         *)
(* resource make the booked minutes exceed the available minutes.          *)
(***************************************************************************)
C1_PercentagesWithin0And100 ==
    (pc = "returned" /\ call \in Builders) =>
        \A p \in Percentages : p # NaN /\ p \in 0..100

\* the daily trend returned with an hour whose booked minutes exceed its available ones
C1_Witness_OverbookedHour ==
    /\ Returned("daily")
    /\ \E h \in DOMAIN acc :
          /\ acc[h].availMin > 0
          /\ acc[h].bookedMin > acc[h].availMin
          /\ out[h + 1].utilization = 100

(***************************************************************************)
(* C2: in every row buildUtilizationStatusByType returns, optimal + busy + *)
(* overUtilized is exactly 100, for any number of resources of the type    *)
(* and any split of them between the three buckets.                        *)
(***************************************************************************)
C2_StatusRowSumsTo100 ==
    Returned("status") =>
        \A i \in 1..Len(out) : out[i].optimal + out[i].busy + out[i].overUtilized = 100

(***************************************************************************)
(* C9 (scenario A): with one resource of capacity 1, operating hours       *)
(* 8-20, a one-day range and one confirmed booking of whole hours [s, e),  *)
(* 8 <= s < e <= 20, the daily trend is 100 for every hour h with          *)
(* s <= h < e and 0 for every other hour.                                  *)
(***************************************************************************)
C9_ScenarioADailyTrend ==
    Returned("daily") =>
        LET s == bookings[1].start_time.time \div 60
            e == bookings[1].end_time.time \div 60
        IN /\ Len(out) = 24
           /\ \A h \in 0..23 :
                 out[h + 1].utilization = IF s <= h /\ h < e THEN 100 ELSE 0

\* the booking 09:00-11:00: "9 AM" and "10 AM" are 100
C9_Witness_NineToEleven ==
    /\ Returned("daily")
    /\ bookings[1].start_time.time = 9 * 60 /\ bookings[1].end_time.time = 11 * 60
    /\ out[10] = [hour |-> "9 AM", utilization |-> 100]
    /\ out[11] = [hour |-> "10 AM", utilization |-> 100]
    /\ out[9].utilization = 0 /\ out[12].utilization = 0

(***************************************************************************)
(* C10 (scenario B): n study rooms of capacity 1, one booking 08:00-09:00  *)
(* on day 1, a range of d days and operating hours 8-9: groupBy "type"     *)
(* gives "study-room" availMin = n * d * 60, bookedMin = 60,               *)
(* resourcesCount = n and bookings = 1; for n = 2 and d = 2 that is        *)
(* availMin = 240, i.e. 25% utilization.                                   *)
(***************************************************************************)
C10_ScenarioBTypeMetrics ==
    Returned("type") =>
        LET n == Len(resources)
            d == (rangeEnd - rangeStart) \div MS_DAY
        IN /\ DOMAIN acc = {"study-room"}
           /\ acc["study-room"] = [availMin |-> n * d * 60, bookedMin |-> 60,
                                   resourcesCount |-> n, bookings |-> 1]
           /\ (n = 2 /\ d = 2) =>
                 /\ acc["study-room"].availMin = 240
                 /\ UtilPct(acc["study-room"].bookedMin, acc["study-room"].availMin) = 25

\* two rooms over two days
C10_Witness_TwoRoomsTwoDays ==
    /\ Returned("type")
    /\ Len(resources) = 2 /\ rangeEnd - rangeStart = 2 * MS_DAY
    /\ acc["study-room"] = [availMin |-> 240, bookedMin |-> 60,
                            resourcesCount |-> 2, bookings |-> 1]

(***************************************************************************)
(* C3: a booking whose start_time or end_time does not parse to a valid    *)
(* instant is skipped as a whole by every builder: the accumulators (the   *)
(* booked minutes and the booking counts of every bucket, the weekly       *)
(* trend's `bookings` included) are those of the same call without it.     *)
(***************************************************************************)
Unparseable(b) == parseDT(b.start_time) = NaN \/ parseDT(b.end_time) = NaN

C3_UnparseableBookingSkipped ==
    (pc = "returned" /\ call \in Builders) =>
        acc = AccOf(call, SelectSeq(bookings, LAMBDA b : ~Unparseable(b)),
                    resources, rangeStart, rangeEnd, opts)

(***************************************************************************)
(* C4: without options.includeStatuses every builder counts exactly the    *)
(* statuses completed, confirmed, active and upcoming: the call builds     *)
(* what it builds when that list is passed as includeStatuses.             *)
(***************************************************************************)
C4_SameDefaultAllowList ==
    (pc = "returned" /\ call \in Builders /\ ~Has(opts, "includeStatuses")) =>
        acc = AccOf(call, bookings, resources, rangeStart, rangeEnd,
                    WithOption(opts, "includeStatuses",
                               <<"completed", "confirmed", "active", "upcoming">>))

(***************************************************************************)
(* C5: with bookings = [] and a non-empty resources array (no options)     *)
(* every builder returns a fully shaped, non-empty result whose            *)
(* utilization percentages are all 0: 24 hours, 7 weekdays with            *)
(* bookings = 0, a 7 x bands matrix, one entry per room, and a non-empty   *)
(* list of band cells for every room of the per-room heatmap.              *)
(***************************************************************************)
C5_EmptyBookingsZeroFilled ==
    (pc = "returned" /\ call \in Builders /\ bookings = <<>> /\ resources # <<>>
        /\ DOMAIN opts = {}) =>
        /\ \A p \in Percentages \ (IF call = "status" THEN Percentages ELSE {}) : p = 0
        /\ call = "daily" => Len(out) = 24
        /\ call = "weekly" => Len(out) = 7 /\ \A i \in 1..7 : out[i].bookings = 0
        /\ call = "status" => Len(out) >= 1
        /\ call = "heatmap" =>
              /\ Len(out.rows) = 7 /\ Len(out.bands) >= 1
              /\ \A i \in 1..7 : Len(out.rows[i].cells) = Len(out.bands)
        /\ call = "roomName" => Len(out) = Len(resources)
        /\ call = "roomHeatmap" =>
              /\ Len(out.rooms) = Len(resources)
              /\ \A k \in 1..Len(out.rooms) : Len(out.rooms[k].cells) >= 1

(***************************************************************************)
(* C6: called without a `bands` option, both heatmap builders lay out the  *)
(* same 14 one-hour bands "8-9" ... "21-22".                               *)
(***************************************************************************)
C6_SameDefaultBands ==
    (pc = "returned" /\ call \in {"heatmap", "roomHeatmap"} /\ ~Has(opts, "bands")) =>
        out.bands = <<"8-9", "9-10", "10-11", "11-12", "12-13", "13-14", "14-15",
                      "15-16", "16-17", "17-18", "18-19", "19-20", "20-21", "21-22">>

(***************************************************************************)
(* C7: the clipping law.                                                   *)
(***************************************************************************)
RECURSIVE SumOver(_, _)
SumOver(F(_), S) ==
    IF S = {} THEN 0
    ELSE LET x == CHOOSE y \in S : TRUE IN F(x) + SumOver(F, S \ {x})

SumSeq(q) == SumOver(LAMBDA i : q[i], 1..Len(q))

\* the booked minutes of all buckets of the returned call
TotalBookedMin ==
    CASE call \in {"hour", "weekday", "type", "daily", "weekly"} ->
             SumOver(LAMBDA k : acc[k].bookedMin, DOMAIN acc)
      [] call = "status" ->
             SumOver(LAMBDA id : acc.bookedByResource[id], DOMAIN acc.bookedByResource)
      [] call = "roomName" ->
             SumOver(LAMBDA id : acc.bookedById[id], DOMAIN acc.bookedById)
      [] call = "heatmap" ->
             SumOver(LAMBDA i : SumSeq(acc.bookedMin[i]), 1..7)
      [] call = "roomHeatmap" ->
             SumOver(LAMBDA id : SumSeq(acc.bookedMinByRoomBand[id]),
                     DOMAIN acc.bookedMinByRoomBand)

\* the booking counts of all buckets of the returned call (the metrics only)
TotalBookingCount ==
    IF call \in {"hour", "weekday", "type", "daily", "weekly"}
    THEN SumOver(LAMBDA k : acc[k].bookings, DOMAIN acc)
    ELSE 0

\* b parses and lies entirely outside [rangeStart, rangeEnd)
WhollyOutside(b) ==
    LET bs == parseDT(b.start_time)
        be == parseDT(b.end_time)
    IN bs # NaN /\ be # NaN /\ (be <= rangeStart \/ bs >= rangeEnd)

\* the only booking is a well-formed confirmed booking of an in-scope resource that
\* overlaps the range
OneCountedBooking ==
    /\ Len(bookings) = 1
    /\ bookings[1].status = "confirmed"
    /\ \E i \in 1..Len(resources) :
          resources[i].resource_id = bookings[1].resource_id /\ InScope(resources[i], opts)
    /\ parseDT(bookings[1].start_time) # NaN /\ parseDT(bookings[1].end_time) # NaN
    /\ Max(parseDT(bookings[1].start_time), rangeStart)
           < Min(parseDT(bookings[1].end_time), rangeEnd)

\* the half hours of the intersection of the only booking with the range (every instant
\* of Spec is a multiple of 30 minutes), as indices k of the instants k * 30 min
IntersectionHalfHours ==
    LET lo == Max(parseDT(bookings[1].start_time), rangeStart)
        hi == Min(parseDT(bookings[1].end_time), rangeEnd)
    IN {k \in 0..(48 * (MaxDays + 1)) : lo <= k * 30 * MS_MIN /\ k * 30 * MS_MIN < hi}

HourOfHalfHour(k) == (k \div 2) % 24

OpenHalfHour(k) ==
    \/ ~Has(opts, "operatingHours")
    \/ /\ opts.operatingHours.start <= HourOfHalfHour(k)
       /\ HourOfHalfHour(k) < opts.operatingHours.end

\* the bands the returned heatmap call lays out, as <<startHour, endHour>>
BandHoursOfCall ==
    IF Has(opts, "bands")
    THEN [i \in 1..Len(opts.bands) |-> <<opts.bands[i].startHour, opts.bands[i].endHour>>]
    ELSE IF call = "heatmap" THEN [i \in 1..14 |-> <<7 + i, 8 + i>>]
    ELSE <<>>

OutsideBookingsAddNothing ==
    pc = "returned" =>
        /\ (\E i \in 1..Len(bookings) : WhollyOutside(bookings[i])) =>
              acc = AccOf(call, SelectSeq(bookings, LAMBDA b : ~WhollyOutside(b)),
                          resources, rangeStart, rangeEnd, opts)
        /\ (\A i \in 1..Len(bookings) : WhollyOutside(bookings[i])) =>
              TotalBookedMin = 0 /\ TotalBookingCount = 0

(***************************************************************************)
(* C7 as claimed: a booking entirely outside [rangeStart, rangeEnd) adds   *)
(* no booked minutes and no booking count to any bucket of any builder,    *)
(* and a booking that overlaps the range adds exactly the minutes of the   *)
(* intersection.                                                           *)
(***************************************************************************)
C7_ClippingLawAsClaimed ==
    /\ OutsideBookingsAddNothing
    /\ (pc = "returned" /\ OneCountedBooking) =>
          TotalBookedMin = 30 * Cardinality(IntersectionHalfHours)

(***************************************************************************)
(* C7 amended: a booking entirely outside the range adds nothing; an       *)
(* overlapping booking adds the minutes of the intersection that lie in    *)
(* open hours (hour and weekday grouping, the per-resource sums of the     *)
(* status and room-ranking builders), the whole intersection in type       *)
(* grouping, and in the heatmap builders the minutes of the intersection   *)
(* inside each band.                                                       *)
(***************************************************************************)
C7_ClippingLaw ==
    /\ OutsideBookingsAddNothing
    /\ (pc = "returned" /\ OneCountedBooking) =>
          TotalBookedMin =
              30 * (CASE call = "type" -> Cardinality(IntersectionHalfHours)
                      [] call \in {"heatmap", "roomHeatmap"} ->
                             SumOver(LAMBDA i : Cardinality(
                                         {k \in IntersectionHalfHours :
                                             /\ BandHoursOfCall[i][1] <= HourOfHalfHour(k)
                                             /\ HourOfHalfHour(k) < BandHoursOfCall[i][2]}),
                                     1..Len(BandHoursOfCall))
                      [] OTHER -> Cardinality({k \in IntersectionHalfHours : OpenHalfHour(k)}))

\* a returned call whose only booking starts inside the range and ends after it, and
\* which is charged the minutes up to rangeEnd only
C7_Witness_PartialOverlap ==
    /\ pc = "returned" /\ OneCountedBooking
    /\ parseDT(bookings[1].start_time) > rangeStart
    /\ parseDT(bookings[1].end_time) > rangeEnd
    /\ TotalBookedMin = (rangeEnd - parseDT(bookings[1].start_time)) \div MS_MIN
    /\ TotalBookedMin > 0

(***************************************************************************)
(* C8: a bucket whose denominator (available minutes) is zero or negative  *)
(* is reported with utilization 0 by every builder, never NaN.             *)
(***************************************************************************)
C8_NoDenominatorMeansZero ==
    pc = "returned" =>
        /\ call \in {"daily", "weekly"} =>
              \A i \in 1..Len(out) :
                  getAcc(acc, i - 1).availMin <= 0 => out[i].utilization = 0
        /\ call = "heatmap" =>
              \A i \in 1..7 : \A j \in 1..Len(acc.bands) :
                  acc.availMin[i][j] <= 0 => out.rows[i].cells[j].utilization = 0
        /\ call = "roomName" =>
              \A i \in 1..Len(out) :
                  out[i].availableMinutes <= 0 => out[i].utilization = 0
        /\ call = "roomHeatmap" =>
              \A k \in 1..Len(out.rooms) : \A j \in 1..Len(acc.bands) :
                  acc.availMinPerBand[j] * capacityOr1(acc.scoped[k]) <= 0
                      => out.rooms[k].cells[j].utilization = 0
        /\ (call = "status" /\ acc.totalRangeMin <= 0) =>
              \A t \in DOMAIN acc.counts : acc.counts[t].optimal = acc.counts[t].total

\* the daily trend returned 0 for an hour with booked minutes and no available minutes
C8_Witness_BookedHourWithoutAvailability ==
    /\ Returned("daily")
    /\ \E h \in DOMAIN acc :
          acc[h].availMin = 0 /\ acc[h].bookedMin > 0 /\ out[h + 1].utilization = 0

(***************************************************************************)
(* SpecSkip: bookings that a builder has to pass over (no duration, a      *)
(* negative duration, a status outside the allow-list, a resource that is  *)
(* unknown or out of scope) next to one that counts, over resources in     *)
(* and out of scope.                                                       *)
(***************************************************************************)
SkipPool == <<
    Booking("r1", "confirmed", TS(0, 9, 0), TS(0, 11, 0)),
    Booking("r1", "confirmed", TS(0, 10, 0), TS(0, 10, 0)),
    Booking("r1", "confirmed", TS(0, 11, 0), TS(0, 9, 0)),
    Booking("r1", "cancelled", TS(0, 9, 0), TS(0, 10, 0)),
    Booking("r2", "completed", TS(0, 9, 30), TS(0, 10, 30)),
    Booking("r3", "active", TS(0, 10, 0), TS(0, 12, 0)),
    Booking("r9", "confirmed", TS(0, 9, 0), TS(0, 10, 0)) >>

SkipOptions ==
    {NoOpts,
     [onlyAvailableResources |-> TRUE],
     [resourceType |-> "study-room", operatingHours |-> [start |-> 8, end |-> 20]],
     [resourceType |-> "lab", onlyAvailableResources |-> FALSE],
     [includeStatuses |-> <<"cancelled", "confirmed">>,
      bands |-> <<[label |-> "morning", startHour |-> 8, endHour |-> 12]>>]}

InitSkip ==
    /\ bookings \in {SeqOfIndices(SkipPool, idx) :
                        idx \in {x \in SUBSET (1..Len(SkipPool)) : Cardinality(x) <= MaxBookings}}
    /\ resources \in {<<R1>>, <<R1, R2>>, <<R2, R3, R1>>}
    /\ \E r \in {<<At(0, 0, 0), At(1, 0, 0)>>, <<At(0, 9, 30), At(0, 11, 30)>>} :
          rangeStart = r[1] /\ rangeEnd = r[2]
    /\ opts \in SkipOptions
    /\ Idle

SpecSkip == InitSkip /\ [][Next]_vars

\* the value a call returns, from the accumulators it built
OutOfAcc(name, a, o) ==
    CASE name \in {"hour", "weekday", "type"} -> a
      [] name = "daily" -> DailyOfAcc(a)
      [] name = "weekly" -> WeeklyOfAcc(a)
      [] name = "status" -> StatusRowsOf(a.counts)
      [] name = "heatmap" -> HeatmapOfAcc(a)
      [] name = "roomName" -> RoomNameOfAcc(a, o)
      [] name = "roomHeatmap" -> RoomHeatOfAcc(a, o)

\* the options without the given fields
WithoutOptions(o, fields) == [f \in DOMAIN o \ fields |-> o[f]]

\* b parses and ends at or before its own start
NoDuration(b) ==
    /\ parseDT(b.start_time) # NaN /\ parseDT(b.end_time) # NaN
    /\ parseDT(b.end_time) <= parseDT(b.start_time)

(***************************************************************************)
(* C11: a booking with end_time <= start_time is skipped by every builder: *)
(* the accumulators (booked minutes, available minutes, booking counts)    *)
(* and the returned value are those of the same call without that booking. *)
(***************************************************************************)
C11_NoDurationBookingSkipped ==
    pc = "returned" =>
        LET kept == SelectSeq(bookings, LAMBDA b : ~NoDuration(b))
            a == AccOf(call, kept, resources, rangeStart, rangeEnd, opts)
        IN acc = a /\ out = OutOfAcc(call, a, opts)

\* a returned call with a counted booking and a booking of no or negative duration of an
\* in-scope resource, inside the range
C11_Witness_ReversedBookingBesideCounted ==
    /\ pc = "returned" /\ call \in {"hour", "weekday", "type"}
    /\ Len(bookings) = 2
    /\ ~NoDuration(bookings[1]) /\ NoDuration(bookings[2])
    /\ bookings[2].status = "confirmed"
    /\ \E i \in 1..Len(resources) :
          resources[i].resource_id = bookings[2].resource_id /\ InScope(resources[i], opts)
    /\ parseDT(bookings[2].start_time) > rangeStart
    /\ parseDT(bookings[2].start_time) < rangeEnd
    /\ TotalBookedMin > 0 /\ TotalBookingCount = 1

(***************************************************************************)
(* C12: a booking is ignored by every builder when its status is not in    *)
(* the allow-list in force (`cancelled` under every default) or when its   *)
(* resource is not in scope; in scope are the resources of the type        *)
(* options.resourceType names (all types when it names none) that, when    *)
(* onlyAvailableResources is true, have no status or status "available".   *)
(* So a call builds what it builds from the in-scope resources and the     *)
(* bookings of allowed status on them, with no scope option set.           *)
(***************************************************************************)
AllowListInForce ==
    IF Has(opts, "includeStatuses") THEN opts.includeStatuses
    ELSE IF call = "heatmap" THEN HeatmapDefaultStatuses
    ELSE IF call \in {"roomName", "roomHeatmap"} THEN RoomDefaultStatuses
    ELSE DefaultStatuses

ClaimedInScope(r) ==
    /\ Has(opts, "resourceType") => r.type = opts.resourceType
    /\ (Has(opts, "onlyAvailableResources") /\ opts.onlyAvailableResources)
          => (~Has(r, "status") \/ r.status = "available")

MaxCapacityRooms == 2

\* room i; choice 1 leaves the capacity out, choice c > 1 sets capacity c - 2
CapacityRoom(i, c) ==
    LET room == [resource_id |-> "r" \o ToString(i),
                 type |-> IF i % 2 = 1 THEN "study-room" ELSE "lab",
                 name |-> "Room " \o ToString(i)]
    IN IF c = 1 THEN room
       ELSE [f \in DOMAIN room \cup {"capacity"} |->
                IF f = "capacity" THEN c - 2 ELSE room[f]]

CapacityLists ==
    UNION {{[i \in 1..n |-> CapacityRoom(i, cs[i])] : cs \in [1..n -> 1..4]} :
              n \in 1..MaxCapacityRooms}

InitCapacity ==
    /\ resources \in CapacityLists
    /\ bookings \in {<<>>, <<Booking("r1", "confirmed", TS(0, 9, 0), TS(0, 11, 0))>>}
    /\ \E r \in {<<At(0, 0, 0), At(1, 0, 0)>>, <<At(0, 8, 30), At(0, 10, 30)>>,
                 <<At(0, 19, 30), At(1, 8, 30)>>} :
          rangeStart = r[1] /\ rangeEnd = r[2]
    /\ opts \in {NoOpts,
                 [operatingHours |-> [start |-> 8, end |-> 20]],
                 [operatingHours |-> [start |-> 9, end |-> 10],
                  resourceType |-> "study-room",
                  bands |-> <<[label |-> "9-10", startHour |-> 9, endHour |-> 10]>>]}
    /\ Idle

SpecCapacity == InitCapacity /\ [][Next]_vars

(***************************************************************************)
(* C13: a resource with no capacity, or capacity 0, weighs as a resource   *)
(* of capacity 1 in every denominator: writing capacity 1 into every such  *)
(* resource changes the output of no builder.                              *)
(***************************************************************************)
WithCapacity(r, c) ==
    [f \in DOMAIN r \cup {"capacity"} |-> IF f = "capacity" THEN c ELSE r[f]]

Falsy(r) == ~Has(r, "capacity") \/ r.capacity = 0

C13_FalsyCapacityWeighsAsOne ==
    pc = "returned" =>
        LET ones == [i \in 1..Len(resources) |->
                        IF Falsy(resources[i]) THEN WithCapacity(resources[i], 1)
                        ELSE resources[i]]
        IN out = OutOfAcc(call, AccOf(call, bookings, ones, rangeStart, rangeEnd, opts), opts)

\* the room ranking of a room without capacity and a room of capacity 0, both with the
\* available minutes of one unit of capacity
C13_Witness_AbsentAndZeroCapacity ==
    /\ Returned("roomName")
    /\ Len(resources) = 2 /\ Len(out) = 2
    /\ ~Has(resources[1], "capacity")
    /\ Has(resources[2], "capacity") /\ resources[2].capacity = 0
    /\ out[1].availableMinutes > 0
    /\ out[2].availableMinutes = out[1].availableMinutes

(***************************************************************************)
(* C20: in hour and weekday grouping the available minutes of all buckets  *)
(* sum to (the open minutes of the range) x (the sum over the in-scope     *)
(* resources of capacity-or-1), which is also the sum over the types of    *)
(* the type grouping's availMin; raising one resource from one unit of     *)
(* capacity to 2 adds to every bucket its open minutes once more.          *)
(***************************************************************************)
\* the half hours of [rangeStart, rangeEnd), as indices k of the instants k * 30 min
\* (every range of SpecCapacity starts and ends on a half hour within three days)
RangeHalfHours ==
    {k \in 0..(3 * 48) : rangeStart <= k * 30 * MS_MIN /\ k * 30 * MS_MIN < rangeEnd}

WeekdayOfHalfHour(k) == (k \div 48) % 7

\* the open minutes of the range that belong to bucket b
OpenBucketMinutes(b) ==
    30 * Cardinality({k \in RangeHalfHours :
                         /\ OpenHalfHour(k)
                         /\ b = IF call \in {"hour", "daily"} THEN HourOfHalfHour(k)
                                ELSE WeekdayOfHalfHour(k)})

CapacitySum ==
    SumOver(LAMBDA i : IF ~ClaimedInScope(resources[i]) THEN 0
                       ELSE IF Falsy(resources[i]) THEN 1
                       ELSE resources[i].capacity,
            1..Len(resources))

C20_AvailableMinutesSum ==
    (pc = "returned" /\ call \in {"hour", "weekday"}) =>
        LET total == SumOver(LAMBDA k : acc[k].availMin, DOMAIN acc)
            byType == AccOf("type", bookings, resources, rangeStart, rangeEnd, opts)
        IN /\ total = 30 * Cardinality({k \in RangeHalfHours : OpenHalfHour(k)}) * CapacitySum
           /\ total = SumOver(LAMBDA t : byType[t].availMin, DOMAIN byType)
           /\ \A i \in 1..Len(resources) :
                 (ClaimedInScope(resources[i])
                     /\ (Falsy(resources[i]) \/ resources[i].capacity = 1)) =>
                     LET raised == AccOf(call, bookings,
                                         [resources EXCEPT ![i] = WithCapacity(@, 2)],
                                         rangeStart, rangeEnd, opts)
                     IN \A b \in DOMAIN raised :
                           raised[b].availMin
                               = getAcc(acc, b).availMin + OpenBucketMinutes(b)

\* hour grouping over a range that crosses closing and opening time, with a room of
\* capacity 2 beside a room of capacity 1
C20_Witness_TwoSeatRoomOverNight ==
    /\ Returned("hour")
    /\ Has(opts, "operatingHours") /\ ~Has(opts, "resourceType")
    /\ rangeStart = At(0, 19, 30) /\ rangeEnd = At(1, 8, 30)
    /\ Len(resources) = 2
    /\ Has(resources[1], "capacity") /\ resources[1].capacity = 2
    /\ Has(resources[2], "capacity") /\ resources[2].capacity = 1
    /\ DOMAIN acc = {8, 19}
    /\ acc[19].availMin = 90 /\ acc[8].availMin = 90

(***************************************************************************)
(* SpecHours: operating hours are always set; the bookings of room r1      *)
(* cross opening time, closing time or a whole night, or lie in closed     *)
(* hours.                                                                  *)
(***************************************************************************)
HoursPool == <<
    Booking("r1", "confirmed", TS(0, 19, 30), TS(0, 20, 30)),
    Booking("r1", "confirmed", TS(0, 7, 30), TS(0, 8, 30)),
    Booking("r1", "confirmed", TS(0, 19, 0), TS(1, 9, 0)),
    Booking("r1", "active", TS(0, 6, 0), TS(0, 7, 0)),
    Booking("r1", "confirmed", TS(0, 21, 0), TS(0, 22, 0)) >>

HoursOptions ==
    {[operatingHours |-> [start |-> 8, end |-> 20]],
     [operatingHours |-> [start |-> 8, end |-> 20],
      bands |-> <<[label |-> "18-20", startHour |-> 18, endHour |-> 20],
                  [label |-> "20-22", startHour |-> 20, endHour |-> 22]>>],
     [operatingHours |-> [start |-> 9, end |-> 17]]}

InitHours ==
    /\ bookings \in {SeqOfIndices(HoursPool, idx) :
                        idx \in {x \in SUBSET (1..Len(HoursPool)) : Cardinality(x) <= MaxBookings}}
    /\ resources \in {<<R1>>, <<R2, R1>>}
    /\ \E r \in {<<At(0, 0, 0), At(1, 0, 0)>>, <<At(0, 0, 0), At(2, 0, 0)>>,
                 <<At(0, 8, 0), At(0, 20, 0)>>} :
          rangeStart = r[1] /\ rangeEnd = r[2]
    /\ opts \in HoursOptions
    /\ Idle

SpecHours == InitHours /\ [][Next]_vars

(***************************************************************************)
(* C14: with options.operatingHours the heatmap builders honor it: a band  *)
(* wholly outside [operatingHours.start, operatingHours.end) gets no       *)
(* available minutes and no booked minutes and reports 0%, also when a     *)
(* booking covers it.                                                      *)
(***************************************************************************)
ClosedBand(band) ==
    \/ band.endHour <= opts.operatingHours.start
    \/ band.startHour >= opts.operatingHours.end

C14_HeatmapsHonorOperatingHours ==
    (pc = "returned" /\ Has(opts, "operatingHours")) =>
        /\ call = "heatmap" =>
              \A i \in 1..Len(acc.bands) : ClosedBand(acc.bands[i]) =>
                  \A wd \in 1..7 :
                      /\ acc.availMin[wd][i] = 0 /\ acc.bookedMin[wd][i] = 0
                      /\ out.rows[wd].cells[i].utilization = 0
        /\ call = "roomHeatmap" =>
              \A i \in 1..Len(acc.bands) : ClosedBand(acc.bands[i]) =>
                  /\ acc.availMinPerBand[i] = 0
                  /\ \A k \in 1..Len(out.rooms) : out.rooms[k].cells[i].utilization = 0

(***************************************************************************)
(* C19: the open/closed decision is taken per hour-aligned chunk: in hour  *)
(* and weekday grouping every bucket holds the minutes of the bookings'    *)
(* clamped intervals that fall in open hours of that bucket, and the       *)
(* per-resource sums of buildUtilizationStatusByType and                   *)
(* buildUtilizationByRoomName hold the open minutes of the resource's      *)
(* clamped bookings, whatever the hour a booking starts in.                *)
(***************************************************************************)
\* the half hours of booking b clamped to the range, as indices k of the instants
\* k * 30 min (every instant of SpecHours is on a half hour within three days)
ClampedHalfHours(b) ==
    {k \in 0..(3 * 48) :
        /\ Max(parseDT(b.start_time), rangeStart) <= k * 30 * MS_MIN
        /\ k * 30 * MS_MIN < Min(parseDT(b.end_time), rangeEnd)}

\* the open minutes of all bookings whose half hours satisfy InBucket
OpenBookedMinutes(InBucket(_)) ==
    SumOver(LAMBDA i : 30 * Cardinality({k \in ClampedHalfHours(bookings[i]) :
                                            OpenHalfHour(k) /\ InBucket(k)}),
            1..Len(bookings))

C19_OpenDecisionPerChunk ==
    pc = "returned" =>
        /\ call \in {"hour", "daily"} =>
              \A h \in 0..23 :
                  getAcc(acc, h).bookedMin
                      = OpenBookedMinutes(LAMBDA k : HourOfHalfHour(k) = h)
        /\ call \in {"weekday", "weekly"} =>
              \A wd \in 0..6 :
                  getAcc(acc, wd).bookedMin
                      = OpenBookedMinutes(LAMBDA k : WeekdayOfHalfHour(k) = wd)
        /\ call = "status" =>
              acc.bookedByResource["r1"] = OpenBookedMinutes(LAMBDA k : TRUE)
        /\ call = "roomName" =>
              acc.bookedById["r1"] = OpenBookedMinutes(LAMBDA k : TRUE)

\* hour grouping with the booking 19:30-20:30 over closing time (20:00): the 30 open
\* minutes are in bucket 19, bucket 20 has none
C19_Witness_BookingOverClosingTime ==
    /\ Returned("hour")
    /\ opts.operatingHours = [start |-> 8, end |-> 20]
    /\ Len(bookings) = 1
    /\ bookings[1].start_time.time = 19 * 60 + 30 /\ bookings[1].end_time.time = 20 * 60 + 30
    /\ rangeStart = At(0, 0, 0)
    /\ acc[19].bookedMin = 30 /\ acc[19].bookings = 1
    /\ getAcc(acc, 20).bookedMin = 0

ClaimedRoomName(r) ==
    IF Has(opts, "nameKey") /\ opts.nameKey = "resource_id" THEN r.resource_id
    ELSE IF r.name = "" THEN r.resource_id
    ELSE r.name

C16_RoomRankingSortedAndNamed ==
    Returned("roomName") =>
        LET listed == {i \in 1..Len(resources) :
                          /\ ClaimedInScope(resources[i])
                          /\ ClaimedRoomName(resources[i]) # "undefined"}
        IN /\ \A i, j \in 1..Len(out) : i < j => out[i].utilization >= out[j].utilization
           /\ Len(out) = Cardinality(listed)
           /\ \A i \in listed :
                 \E k \in 1..Len(out) :
                     /\ out[k].roomId = resources[i].resource_id
                     /\ out[k].roomName = ClaimedRoomName(resources[i])

\* the ranking of <<Room 1, the lab without a name>> with only the lab booked: the lab
\* comes first, under its resource_id
C16_Witness_SecondRoomRanksFirst ==
    /\ Returned("roomName")
    /\ resources = <<R1, R2>> /\ Len(out) = 2
    /\ out[1].roomId = "r2" /\ out[1].roomName = "r2"
    /\ out[2].roomId = "r1" /\ out[2].roomName = "Room 1"
    /\ out[1].utilization > out[2].utilization

(***************************************************************************)
(* SpecWeek: room r1 over a range of one or two whole days starting on     *)
(* day d (day 0 is a Monday), with or without a booking 09:00-11:00 on     *)
(* day d.                                                                  *)
(***************************************************************************)
MaxWeekDay == 7

InitWeek ==
    /\ resources = <<R1>>
    /\ \E d \in 0..MaxWeekDay, n \in 1..2 :
          /\ rangeStart = At(d, 0, 0) /\ rangeEnd = At(d + n, 0, 0)
          /\ bookings \in {<<>>, <<Booking("r1", "confirmed", TS(d, 9, 0), TS(d, 11, 0))>>}
    /\ opts \in {NoOpts, [operatingHours |-> [start |-> 8, end |-> 20]]}
    /\ Idle

SpecWeek == InitWeek /\ [][Next]_vars

(***************************************************************************)
(* C17: buildDailyUtilizationTrend returns 24 entries in hour order,       *)
(* labelled "12 AM", "1 AM", ..., "11 AM", "12 PM", "1 PM", ..., "11 PM";  *)
(* buildWeeklyUtilizationAndBookings returns 7 entries Mon ... Sun, entry  *)
(* i holding the days of weekday index i (Monday 0, Sunday 6).             *)
(***************************************************************************)
HourLabels ==
    <<"12 AM", "1 AM", "2 AM", "3 AM", "4 AM", "5 AM", "6 AM", "7 AM", "8 AM", "9 AM",
      "10 AM", "11 AM", "12 PM", "1 PM", "2 PM", "3 PM", "4 PM", "5 PM", "6 PM", "7 PM",
      "8 PM", "9 PM", "10 PM", "11 PM">>

\* the weekday indices (Monday 0) of the days of the range, day 0 being a Monday
RangeWeekdays ==
    {(d % 7) : d \in {x \in 0..(MaxWeekDay + 2) :
                         rangeStart <= x * MS_DAY /\ x * MS_DAY < rangeEnd}}

C17_TrendShapes ==
    /\ Returned("daily") =>
          /\ Len(out) = 24
          /\ \A h \in 0..23 :
                /\ out[h + 1].hour = HourLabels[h + 1]
                /\ (bookings # <<>>) => (out[h + 1].utilization > 0 <=> h \in {9, 10})
    /\ Returned("weekly") =>
          /\ Len(out) = 7
          /\ [i \in 1..7 |-> out[i].day]
                = <<"Mon", "Tue", "Wed", "Thu", "Fri", "Sat", "Sun">>
          /\ \A i \in 0..6 :
                /\ getAcc(acc, i).availMin > 0 <=> i \in RangeWeekdays
                /\ (bookings # <<>>) =>
                      /\ out[i + 1].bookings
                            = IF i = (rangeStart \div MS_DAY) % 7 THEN 1 ELSE 0
                      /\ out[i + 1].utilization > 0 <=> i = (rangeStart \div MS_DAY) % 7

\* the weekly trend of a Sunday (day 6) with its booking: the last entry, "Sun", has it
C17_Witness_SundayIsLast ==
    /\ Returned("weekly")
    /\ rangeStart = At(6, 0, 0) /\ rangeEnd = At(7, 0, 0) /\ bookings # <<>>
    /\ out[7].day = "Sun" /\ out[7].bookings = 1 /\ out[7].utilization > 0
    /\ out[1].bookings = 0 /\ out[1].utilization = 0

(***************************************************************************)
(* C18: in computeUtilizationMetrics every booking that passes the status  *)
(* and scope filters and has a positive clamped duration is counted in     *)
(* exactly one bucket, that of max(bookingStart, rangeStart): every        *)
(* bucket's `bookings` is the number of such bookings attributed to it,    *)
(* so the counts sum to the number of such bookings.                       *)
(***************************************************************************)
\* booking i passes the filters and its clamped interval has a positive duration
CountedBooking(i) ==
    LET b == bookings[i]
    IN /\ \E j \in 1..Len(AllowListInForce) : AllowListInForce[j] = b.status
       /\ \E j \in 1..Len(resources) :
             resources[j].resource_id = b.resource_id /\ ClaimedInScope(resources[j])
       /\ parseDT(b.start_time) # NaN /\ parseDT(b.end_time) # NaN
       /\ Max(parseDT(b.start_time), rangeStart) < Min(parseDT(b.end_time), rangeEnd)

\* the bucket of max(bookingStart, rangeStart) of booking i
CountBucket(i) ==
    LET t == Max(parseDT(bookings[i].start_time), rangeStart)
        r == CHOOSE x \in {resources[j] : j \in 1..Len(resources)} :
                 x.resource_id = bookings[i].resource_id
    IN IF call \in {"hour", "daily"} THEN (t \div MS_HOUR) % 24
       ELSE IF call \in {"weekday", "weekly"} THEN (t \div MS_DAY) % 7
       ELSE r.type

C18_BookingCountedOnce ==
    (pc = "returned" /\ call \in {"hour", "weekday", "type", "daily", "weekly"}) =>
        LET counted == {i \in 1..Len(bookings) : CountedBooking(i)}
        IN /\ \A k \in DOMAIN acc :
                 acc[k].bookings = Cardinality({i \in counted : CountBucket(i) = k})
           /\ \A i \in counted : CountBucket(i) \in DOMAIN acc
           /\ TotalBookingCount = Cardinality(counted)


(***************************************************************************)
(* C21: in type grouping every in-scope resource adds 1 to its type's      *)
(* resourcesCount and (the open minutes of the range) x (its capacity, 1   *)
(* when it has none) to its type's availMin, booked or not: there is one   *)
(* bucket per type present in scope, and the bucket of a type without      *)
(* counted bookings has bookedMin = 0 and bookings = 0.                    *)
(***************************************************************************)
\* the indices of the in-scope resources of type t
ScopedOfType(t) ==
    {i \in 1..Len(resources) : ClaimedInScope(resources[i]) /\ resources[i].type = t}

RangeOpenMinutes == 30 * Cardinality({k \in RangeHalfHours : OpenHalfHour(k)})

C21_TypeBucketPerScopedResource ==
    Returned("type") =>
        LET types == {resources[i].type :
                         i \in {j \in 1..Len(resources) : ClaimedInScope(resources[j])}}
        IN /\ DOMAIN acc = types
           /\ \A t \in types :
                 /\ acc[t].resourcesCount = Cardinality(ScopedOfType(t))
                 /\ acc[t].availMin
                       = SumOver(LAMBDA i : RangeOpenMinutes
                                               * (IF Falsy(resources[i]) THEN 1
                                                  ELSE resources[i].capacity),
                                 ScopedOfType(t))
                 /\ (\A j \in 1..Len(bookings) :
                        \A i \in ScopedOfType(t) :
                            bookings[j].resource_id # resources[i].resource_id) =>
                       (acc[t].bookedMin = 0 /\ acc[t].bookings = 0)

\* a booked study room of capacity 2 beside a lab nobody booked, over open hours 8-20:
\* the lab has its bucket, with its available minutes and nothing booked
C21_Witness_UnbookedLabHasBucket ==
    /\ Returned("type")
    /\ Len(resources) = 2 /\ Len(bookings) = 1
    /\ Has(resources[1], "capacity") /\ resources[1].capacity = 2
    /\ ~Has(resources[2], "capacity")
    /\ opts = [operatingHours |-> [start |-> 8, end |-> 20]]
    /\ rangeStart = At(0, 0, 0) /\ rangeEnd = At(1, 0, 0)
    /\ acc["lab"] = [bookedMin |-> 0, availMin |-> 720, bookings |-> 0,
                     resourcesCount |-> 1]
    /\ acc["study-room"] = [bookedMin |-> 120, availMin |-> 1440, bookings |-> 1,
                            resourcesCount |-> 1]


(***************************************************************************)
(* C22: in type grouping a counted booking adds its whole clamped duration *)
(* min(end, rangeEnd) - max(start, rangeStart) to the bucket of its        *)
(* resource's type, closed hours included: the booked minutes of the type  *)
(* buckets exceed those of the hour buckets of the same inputs by exactly  *)
(* the closed-hours minutes of the counted bookings.                       *)
(***************************************************************************)
\* the minutes of the clamped counted bookings of the resources of type t whose half
\* hours satisfy Pick
ClampedMinutesOfType(Pick(_), t) ==
    SumOver(LAMBDA i : IF CountedBooking(i) /\ CountBucket(i) = t
                       THEN 30 * Cardinality({k \in ClampedHalfHours(bookings[i]) : Pick(k)})
                       ELSE 0,
            1..Len(bookings))

MaxShareRooms == 40

ShareOptions ==
    {NoOpts,
     [thresholds |-> [optimalMax |-> 30, busyMax |-> 60]],
     [operatingHours |-> [start |-> 9, end |-> 20]]}

InitShare ==
    /\ resources = <<R1>> \o [i \in 1..MaxShareRooms |-> LabRoom(i + 1)]
    /\ \E nOptimal \in 0..MaxShareRooms, m \in {0, 60, 61, 85, 86} :
          bookings =
              (IF m = 0 THEN <<>>
               ELSE <<Booking("r1", "confirmed", TS(0, 8, 0), TS(0, 8 + m \div 60, m % 60))>>)
              \o [j \in 1..(MaxShareRooms - nOptimal) |->
                     Booking("r" \o ToString(nOptimal + j + 1), "confirmed", TS(0, 8, 0),
                             TS(0, 9, IF (nOptimal + j) % 2 = 1 THEN 25 ELSE 26))]
    /\ rangeStart = At(0, 8, 0) /\ rangeEnd = At(0, 9, 40)
    /\ opts \in ShareOptions
    /\ Idle

SpecShare == InitShare /\ [][Next]_vars

(***************************************************************************)
(* C23: buildUtilizationStatusByType puts every in-scope resource in       *)
(* exactly one bucket by its own utilization u = min(100, open-hours       *)
(* booked minutes / open minutes of the range x 100): over iff             *)
(* u > busyMax, busy iff optimalMax < u <= busyMax, optimal otherwise      *)
(* (60 and 85 by default); it returns one row per resource type present in *)
(* scope, in the order of the type names, with                             *)
(* optimal = round(100 x optimalCount / typeCount) and                     *)
(* busy = round(100 x busyCount / typeCount).                              *)
(***************************************************************************)
\* the minutes of the day 0 range [rangeStart, rangeEnd), as minutes after midnight
RangeMinutes == {m \in 0..(24 * 60) : rangeStart <= m * MS_MIN /\ m * MS_MIN < rangeEnd}

OpenMinute(m) ==
    \/ ~Has(opts, "operatingHours")
    \/ (opts.operatingHours.start <= m \div 60 /\ m \div 60 < opts.operatingHours.end)

\* the open minutes of the range that the counted bookings of resource r cover, each
\* minute once per booking that covers it
OpenBookedMinutesOf(r) ==
    SumOver(LAMBDA i :
                IF bookings[i].resource_id = r.resource_id
                       /\ (\E j \in 1..Len(AllowListInForce) :
                              AllowListInForce[j] = bookings[i].status)
                THEN Cardinality({m \in RangeMinutes :
                                     /\ OpenMinute(m)
                                     /\ parseDT(bookings[i].start_time) <= m * MS_MIN
                                     /\ m * MS_MIN < parseDT(bookings[i].end_time)})
                ELSE 0,
            1..Len(bookings))

\* the bucket the claim gives resource r
ClaimedBucket(r) ==
    LET thresholds == IF Has(opts, "thresholds") THEN opts.thresholds
                      ELSE [optimalMax |-> 60, busyMax |-> 85]
        open == Cardinality({m \in RangeMinutes : OpenMinute(m)})
        booked == Min(OpenBookedMinutesOf(r), open)
    IN IF 100 * booked > thresholds.busyMax * open THEN "over"
       ELSE IF 100 * booked > thresholds.optimalMax * open THEN "busy"
       ELSE "optimal"

\* round(100 x n / total), a half rounded up
ClaimedRoundedShare(n, total) == (200 * n + total) \div (2 * total)

C23_StatusClassification ==
    Returned("status") =>
        LET scoped == {i \in 1..Len(resources) : ClaimedInScope(resources[i])}
            types == {resources[i].type : i \in scoped}
            ofType(t) == {i \in scoped : resources[i].type = t}
            inBucket(t, b) == {i \in ofType(t) : ClaimedBucket(resources[i]) = b}
        IN /\ [i \in 1..Len(out) |-> out[i].type]
                 = SelectSeq(<<"lab", "study-room">>, LAMBDA t : t \in types)
           /\ \A t \in types :
                 /\ acc.counts[t].total = Cardinality(ofType(t))
                 /\ \A b \in {"optimal", "busy", "over"} :
                       acc.counts[t][b] = Cardinality(inBucket(t, b))
           /\ \A k \in 1..Len(out) :
                 LET t == out[k].type
                 IN /\ out[k].optimal
                          = ClaimedRoundedShare(Cardinality(inBucket(t, "optimal")),
                                                Cardinality(ofType(t)))
                    /\ out[k].busy
                          = ClaimedRoundedShare(Cardinality(inBucket(t, "busy")),
                                                Cardinality(ofType(t)))


(***************************************************************************)
(* SpecHeat: ranges of up to MaxHeatDays days from a Monday (so that a     *)
(* weekday comes twice), bookings over midnight and over three days, and   *)
(* bookings on the two Mondays, over one room or two.                      *)
(***************************************************************************)
MaxHeatDays == 8

HeatPool == <<
    Booking("r1", "confirmed", TS(0, 9, 0), TS(0, 10, 30)),
    Booking("r1", "confirmed", TS(7, 9, 0), TS(7, 11, 0)),
    Booking("r1", "active", TS(0, 21, 0), TS(1, 9, 0)),
    Booking("r2", "completed", TS(0, 20, 0), TS(2, 10, 0)),
    Booking("r1", "cancelled", TS(1, 9, 0), TS(1, 10, 0)) >>

HeatOptions ==
    {NoOpts,
     [bands |-> <<[label |-> "night", startHour |-> 0, endHour |-> 8],
                  [label |-> "day", startHour |-> 8, endHour |-> 24]>>],
     [bands |-> <<[label |-> "9-11", startHour |-> 9, endHour |-> 11]>>,
      includeStatuses |-> <<"confirmed", "cancelled">>]}

InitHeat ==
    /\ bookings \in {SeqOfIndices(HeatPool, idx) :
                        idx \in {x \in SUBSET (1..Len(HeatPool)) : Cardinality(x) <= MaxBookings}}
    /\ resources \in {<<R1>>, <<R1, R2>>}
    /\ \E r \in {<<At(0, 0, 0), At(MaxHeatDays, 0, 0)>>, <<At(0, 0, 0), At(1, 0, 0)>>,
                 <<At(0, 9, 30), At(1, 8, 30)>>} :
          rangeStart = r[1] /\ rangeEnd = r[2]
    /\ opts \in HeatOptions
    /\ Idle

SpecHeat == InitHeat /\ [][Next]_vars

(***************************************************************************)
(* C24: in buildWeeklyUsageHeatmap the cell [weekday][band] holds, summed  *)
(* over the calendar days d of that weekday that meet the range, the       *)
(* available minutes |band on d within [rangeStart, rangeEnd)| x (number   *)
(* of in-scope resources) and, for every counted booking, the booked       *)
(* minutes |clamped booking within band on d|: a booking over k calendar   *)
(* days adds to the row of each of them, and the days of one weekday add   *)
(* up in one cell.                                                         *)
(***************************************************************************)
\* the half hours of the days 0 .. MaxHeatDays + 1, as indices k of the instants k * 30 min
HeatHalfHours == 0..(48 * (MaxHeatDays + 2))

\* half hour k lies on a day of weekday wd (Monday 0), inside band
InCell(k, wd, band) ==
    /\ (k \div 48) % 7 = wd
    /\ band.startHour <= (k \div 2) % 24 /\ (k \div 2) % 24 < band.endHour

C24_WeeklyHeatmapAccounting ==
    Returned("heatmap") =>
        LET inRange == {k \in HeatHalfHours :
                           rangeStart <= k * 30 * MS_MIN /\ k * 30 * MS_MIN < rangeEnd}
            clamped(i) == {k \in inRange :
                              /\ parseDT(bookings[i].start_time) <= k * 30 * MS_MIN
                              /\ k * 30 * MS_MIN < parseDT(bookings[i].end_time)}
            scopedCount == Cardinality({i \in 1..Len(resources) :
                                           ClaimedInScope(resources[i])})
        IN \A wd \in 0..6 : \A bi \in 1..Len(acc.bands) :
               /\ acc.availMin[wd + 1][bi]
                     = 30 * Cardinality({k \in inRange : InCell(k, wd, acc.bands[bi])})
                          * scopedCount
               /\ acc.bookedMin[wd + 1][bi]
                     = SumOver(LAMBDA i :
                                   IF CountedBooking(i)
                                   THEN 30 * Cardinality({k \in clamped(i) :
                                                             InCell(k, wd, acc.bands[bi])})
                                   ELSE 0,
                               1..Len(bookings))

\* eight days from a Monday, two rooms, a booking on the second Monday and one from the
\* first Monday 21:00 to Tuesday 09:00: the Monday "day" cell holds 180 + 120 booked
\* minutes of 2 x 2 x 960 available ones, and Tuesday has the rest of the night booking
C24_Witness_TwoMondaysAndANight ==
    /\ Returned("heatmap")
    /\ rangeStart = At(0, 0, 0) /\ rangeEnd = At(8, 0, 0)
    /\ Len(resources) = 2 /\ Len(bookings) = 2
    /\ Has(opts, "bands") /\ Len(opts.bands) = 2
    /\ bookings[1].start_time.date = 7
    /\ bookings[2].start_time.date = 0 /\ bookings[2].end_time.date = 1
    /\ bookings[2].resource_id = "r1"
    /\ acc.bookedMin[1] = <<0, 300>> /\ acc.availMin[1] = <<1920, 3840>>
    /\ acc.bookedMin[2] = <<480, 60>> /\ acc.availMin[2] = <<960, 1920>>


(***************************************************************************)
(* C25: the per-room heatmap accounts minutes as the weekly heatmap does:  *)
(* for a single in-scope resource of any capacity, a range inside one      *)
(* calendar day, and the same bands and includeStatuses, every cell of     *)
(* the room's row in buildRoomTimebandHeatmap equals the cell of           *)
(* buildWeeklyUsageHeatmap for that day's weekday and the same band.       *)
(***************************************************************************)
RangeInsideOneDay ==
    /\ rangeStart < rangeEnd
    /\ rangeEnd <= floorToDay(rangeStart) + MS_DAY

C25_RoomHeatmapEqualsWeeklyHeatmap ==
    (/\ Returned("roomHeatmap")
     /\ Has(opts, "bands")
     /\ RangeInsideOneDay
     /\ Cardinality({i \in 1..Len(resources) : ClaimedInScope(resources[i])}) = 1) =>
        LET weekly == buildWeeklyUsageHeatmap(
                          bookings, resources, rangeStart, rangeEnd,
                          WithOption(opts, "includeStatuses", AllowListInForce))
            wd == (rangeStart \div MS_DAY) % 7
        IN /\ Len(out.rooms) = 1
           /\ out.bands = weekly.bands
           /\ out.rooms[1].cells = weekly.rows[wd + 1].cells


(***************************************************************************)
(* SpecWalk: the hour-by-hour walk, one loop iteration per step.  The      *)
(* walked interval is [rangeStart, rangeEnd); acc holds the cursor t and   *)
(* the chunks visited so far.  The code has the loop in two forms:         *)
(*   "breaking":  while (t < end) { ...; t = chunkEnd;                     *)
(*                                  if (t === chunkStart) break; }         *)
(*      (the range walks, and the booking walk of computeUtilizationMetrics) *)
(*   "plain":     while (t < end) { ...; t = chunkEnd; }                   *)
(*      (the booking walks of buildUtilizationStatusByType and             *)
(*       buildUtilizationByRoomName)                                       *)
(* The loops run in one synchronous call: a loop that can take a step      *)
(* takes it.                                                               *)
(***************************************************************************)
MaxWalkHours == 3

\* HourChunk with hourEnd taken for hourStart (the `+ MS_HOUR` left out)
HourChunkNoHour(t, end) ==
    LET hourStart == floorToHour(t)
        hourEnd == hourStart
        chunkStart == IF t > hourStart THEN t ELSE hourStart
        chunkEnd == IF end < hourEnd THEN end ELSE hourEnd
    IN [hourStart |-> hourStart, chunkStart |-> chunkStart, chunkEnd |-> chunkEnd]

\* the body of one iteration, for the cursor t < end
HourChunk(t, end) ==
    LET hourStart == floorToHour(t)
        hourEnd == hourStart + MS_HOUR
        chunkStart == IF t > hourStart THEN t ELSE hourStart
        chunkEnd == IF end < hourEnd THEN end ELSE hourEnd
    IN [hourStart |-> hourStart, chunkStart |-> chunkStart, chunkEnd |-> chunkEnd]

InitWalk ==
    /\ bookings = <<>> /\ resources = <<>> /\ opts = NoOpts
    /\ \E m \in {0, 15, 59}, len \in {15 * n - 30 : n \in 0..(4 * MaxWalkHours + 2)} :
          /\ rangeStart = At(0, 22, m)
          /\ rangeEnd = rangeStart + len * MS_MIN
    /\ Idle

\* `let t = new Date(start)`
WalkBegin(form) ==
    /\ pc = "idle"
    /\ pc' = "walking" /\ call' = form
    /\ acc' = [t |-> rangeStart, chunks |-> <<>>]
    /\ UNCHANGED <<inputs, out>>

\* one iteration of the loop body
WalkStep ==
    /\ pc = "walking" /\ JsLt(acc.t, rangeEnd)
    /\ LET c == HourChunk(acc.t, rangeEnd)
       IN /\ acc' = [t |-> c.chunkEnd, chunks |-> Append(acc.chunks, c)]
          /\ IF call = "breaking" /\ c.chunkEnd = c.chunkStart
             THEN pc' = "returned" /\ out' = Append(acc.chunks, c)
             ELSE pc' = "walking" /\ out' = out
    /\ UNCHANGED <<inputs, call>>

\* `t < end` is false: the loop is left
WalkEnd ==
    /\ pc = "walking" /\ ~JsLt(acc.t, rangeEnd)
    /\ pc' = "returned" /\ out' = acc.chunks
    /\ UNCHANGED <<inputs, call, acc>>

NextWalk ==
    \/ \E form \in {"breaking", "plain"} : WalkBegin(form)
    \/ WalkStep
    \/ WalkEnd
    \/ Discard

SpecWalk == InitWalk /\ [][NextWalk]_vars /\ WF_vars(WalkStep) /\ WF_vars(WalkEnd)

(***************************************************************************)
(* C26: every hour-by-hour walk terminates for every finite interval.      *)
(* Each iteration yields a chunk with chunkStart <= chunkEnd <= the end of *)
(* the clock hour that holds chunkStart; the cursor strictly advances (or  *)
(* the loop is left on a zero-width chunk); the chunks are disjoint and    *)
(* cover the walked interval exactly, hour-aligned or not; and what the    *)
(* walk has visited when it ends is what the builders fold over.           *)
(***************************************************************************)
ChunksInOrder ==
    pc \in {"walking", "returned"} =>
        LET chunks == acc.chunks
        IN /\ \A i \in 1..Len(chunks) :
                 /\ chunks[i].hourStart <= chunks[i].chunkStart
                 /\ chunks[i].chunkStart <= chunks[i].chunkEnd
                 /\ chunks[i].chunkEnd <= chunks[i].hourStart + MS_HOUR
                 /\ chunks[i].hourStart % MS_HOUR = 0
                 /\ chunks[i].chunkStart < chunks[i].chunkEnd
                       \/ (i = Len(chunks) /\ pc = "returned")
                 /\ chunks[i].chunkStart
                       = IF i = 1 THEN rangeStart ELSE chunks[i - 1].chunkEnd
           /\ acc.t = IF chunks = <<>> THEN rangeStart ELSE chunks[Len(chunks)].chunkEnd
           /\ acc.t <= Max(rangeStart, rangeEnd)
           /\ pc = "returned" =>
                 /\ acc.t = Max(rangeStart, rangeEnd)
                 /\ out = chunks
                 /\ out = HourChunks(rangeStart, rangeEnd, <<>>)

C26_WalksTerminate ==
    /\ []ChunksInOrder
    /\ (pc = "walking") ~> (pc = "returned")

\* the plain walk of 22:15 - 00:30 has ended after three chunks: 45, 60 and 30 minutes
C26_Witness_UnalignedOverMidnight ==
    /\ pc = "returned" /\ call = "plain"
    /\ rangeStart = At(0, 22, 15) /\ rangeEnd = At(1, 0, 30)
    /\ [i \in 1..Len(out) |-> ChunkMinutes(out[i])] = <<45, 60, 30>>


(***************************************************************************)
(* C27: for the same inputs the booked minutes of all hour buckets and the *)
(* booked minutes of all weekday buckets have the same sum, the open-hours *)
(* minutes of the clamped counted bookings; without operatingHours that is *)
(* also the sum of the type buckets' bookedMin.                            *)
(***************************************************************************)
\* the sum of the bookedMin of all buckets of a (a JavaScript sum: NaN if one is NaN)
BookedSum(a) ==
    IF \E k \in DOMAIN a : a[k].bookedMin = NaN THEN NaN
    ELSE SumOver(LAMBDA k : a[k].bookedMin, DOMAIN a)

C27_GroupingsAgreeOnBookedMinutes ==
    Returned("hour") =>
        LET byWeekday == AccOf("weekday", bookings, resources, rangeStart, rangeEnd, opts)
            byType == AccOf("type", bookings, resources, rangeStart, rangeEnd, opts)
            open == SumOver(LAMBDA i :
                                IF CountedBooking(i)
                                THEN 30 * Cardinality({k \in ClampedHalfHours(bookings[i]) :
                                                          OpenHalfHour(k)})
                                ELSE 0,
                            1..Len(bookings))
        IN /\ BookedSum(acc) = open
           /\ BookedSum(byWeekday) = open
           /\ ~Has(opts, "operatingHours") => BookedSum(byType) = open


(***************************************************************************)
(* SpecBooked: rooms with distinct ids and capacity absent or 2, and       *)
(* bookings on quarter hours that follow one another, overlap, fall in the *)
(* same hour of two days, or cross opening time.                           *)
(***************************************************************************)
BookedPool == <<
    Booking("r1", "confirmed", TS(0, 9, 0), TS(0, 9, 30)),
    Booking("r1", "confirmed", TS(0, 9, 30), TS(0, 10, 30)),
    Booking("r1", "active", TS(0, 9, 15), TS(0, 9, 45)),
    Booking("r2", "completed", TS(0, 9, 0), TS(0, 10, 0)),
    Booking("r1", "confirmed", TS(1, 9, 0), TS(1, 9, 30)),
    Booking("r1", "upcoming", TS(0, 7, 30), TS(0, 8, 30)) >>

InitBooked ==
    /\ bookings \in {SeqOfIndices(BookedPool, idx) :
                        idx \in {x \in SUBSET (1..Len(BookedPool)) : Cardinality(x) <= MaxBookings}}
    /\ resources \in {<<R1>>, <<R1, R2>>}
    /\ \E r \in {<<At(0, 0, 0), At(1, 0, 0)>>, <<At(0, 0, 0), At(2, 0, 0)>>,
                 <<At(0, 9, 15), At(0, 9, 45)>>} :
          rangeStart = r[1] /\ rangeEnd = r[2]
    /\ opts \in {NoOpts, [operatingHours |-> [start |-> 8, end |-> 20]]}
    /\ Idle

SpecBooked == InitBooked /\ [][Next]_vars

(***************************************************************************)
(* C28: when the resource_ids are distinct, every capacity is at least 1   *)
(* (or absent) and no two counted bookings of one resource overlap in      *)
(* time, every hour bucket and every weekday bucket has                    *)
(* bookedMin <= availMin, and the daily and the weekly trend report the    *)
(* rounded ratio itself: the clamp to 100 changes no value.                *)
(***************************************************************************)
NoDoubleBooking ==
    /\ \A i, j \in 1..Len(resources) :
          resources[i].resource_id = resources[j].resource_id => i = j
    /\ \A i \in 1..Len(resources) :
          Has(resources[i], "capacity") => resources[i].capacity >= 1
    /\ \A i, j \in 1..Len(bookings) :
          (/\ i # j /\ CountedBooking(i) /\ CountedBooking(j)
           /\ bookings[i].resource_id = bookings[j].resource_id) =>
              ~(/\ parseDT(bookings[i].start_time) < parseDT(bookings[j].end_time)
                /\ parseDT(bookings[j].start_time) < parseDT(bookings[i].end_time))

C28_BookedWithinAvailable ==
    (pc = "returned" /\ call \in {"hour", "weekday", "daily", "weekly"} /\ NoDoubleBooking) =>
        /\ \A k \in DOMAIN acc :
              /\ acc[k].bookedMin >= 0
              /\ acc[k].bookedMin <= acc[k].availMin
        /\ call \in {"daily", "weekly"} =>
              \A i \in 1..Len(out) :
                  LET b == getAcc(acc, i - 1).bookedMin
                      a == getAcc(acc, i - 1).availMin
                  IN out[i].utilization = IF a = 0 THEN 0 ELSE (200 * b + a) \div (2 * a)

\* the daily trend of one room booked 09:00-09:30 and 09:30-10:30: hour 9 is booked
\* for all of its 60 available minutes, hour 10 for 30 of them
C28_Witness_BackToBackBookings ==
    /\ Returned("daily") /\ NoDoubleBooking
    /\ resources = <<R1>> /\ Len(bookings) = 2
    /\ bookings[1].end_time = bookings[2].start_time
    /\ rangeStart = At(0, 0, 0) /\ rangeEnd = At(1, 0, 0)
    /\ acc[9].bookedMin = 60 /\ acc[9].availMin = 60 /\ out[10].utilization = 100
    /\ acc[10].bookedMin = 30 /\ out[11].utilization = 50

(***************************************************************************)
(* ResourceDiscovery: booking a resource from the discovery page           *)
(* (roomAnalyticsUtils.ts:259-699) against the bookings table behind       *)
(* api.bookings (services/api.ts:198-245).                                 *)
(*                                                                         *)
(* Several tabs run the component at once.  In this specification          *)
(*   bookings  is the bookings table, a row per insert;                    *)
(*   resources is the component's resources state;                         *)
(*   call[t]   is tab t's logged-in user and booking form;                 *)
(*   pc[t]     is where tab t stands: "idle" (dialog closed), "open"       *)
(*             (dialog open), "listing" (handleConfirmBooking awaits       *)
(*             api.bookings.list), "validating" (the list has arrived),    *)
(*             "creating" (it awaits api.bookings.create), "created";      *)
(*   acc[t]    is the dayBookings array tab t received;                    *)
(*   out[t]    is tab t's dialog flag and the last alert it showed.        *)
(* The browser's time zone is UTC.  Booking ids are taken as distinct, a   *)
(* row is named by its position in the table.                              *)
(***************************************************************************)
MaxTabs == 2
MaxRows == 3
MaxCancelled == 1

Tabs == 1..MaxTabs
NoUser == "null"
Students == {"s1", "s2"}

\* Date.prototype.toISOString of a valid Date
toISOString(t) == [date |-> t \div MS_DAY, time |-> t % MS_DAY, tz |-> "Z"]
\* new Date(s) of a timestamp the table returns
DateOfRow(s) == IF s.tz = "Z" THEN s.date * MS_DAY + s.time ELSE NaN

DialogResources == << [id |-> "r1"], [id |-> "r2", capacity |-> 2] >>
FormSlots == { <<9, 0, 2>>, <<11, 0, 1>>, <<23, 0, 2>> }

\* new Date(`${bookingDate}T${bookingTime}:00`)
startLocal(f) == At(f.bookingDate, f.hours, f.minutes)
\* new Date(`${bookingDate}T${endTime}:00`): an Invalid Date past 24:00
endLocal(f) ==
    LET endHours == f.hours + f.bookingDuration
    IN IF endHours < 24 \/ (endHours = 24 /\ f.minutes = 0)
       THEN At(f.bookingDate, endHours, f.minutes)
       ELSE NaN

dayStart(f) == At(f.bookingDate, 0, 0)
dayEnd(f) == At(f.bookingDate, 23, 59) + 59999

\* api.bookings.list({start, end}): rows with end_time > start and start_time < end
bookingsListRows(table, start, end) ==
    SelectSeq(table, LAMBDA b : DateOfRow(b.end_time) > start /\ DateOfRow(b.start_time) < end)

activeBookings(dayBookings) == SelectSeq(dayBookings, LAMBDA b : b.status # "cancelled")
myDailyBookings(active, userId) == SelectSeq(active, LAMBDA b : b.user_id = userId)
\* startLocal < bEnd && endLocal > bStart
RangesOverlap(s, e, b) == JsLt(s, DateOfRow(b.end_time)) /\ JsGt(e, DateOfRow(b.start_time))
hasOverlap(mine, s, e) == \E i \in 1..Len(mine) : RangesOverlap(s, e, mine[i])
currentOccupancy(active, resId, s, e) ==
    Len(SelectSeq(active, LAMBDA b : b.resource_id = resId /\ RangesOverlap(s, e, b)))
\* bookingDialog.resource?.capacity || 1
DialogCapacity(r) == IF Has(r, "capacity") /\ r.capacity # 0 THEN r.capacity ELSE 1

\* the alert the validation checks raise for a form and a dayBookings array, or "" 
ValidationAlert(f, dayBookings) ==
    LET active == activeBookings(dayBookings)
        mine == myDailyBookings(active, f.user)
    IN IF Len(mine) >= 2 THEN "limit"
       ELSE IF hasOverlap(mine, startLocal(f), endLocal(f)) THEN "overlap"
       ELSE IF currentOccupancy(active, f.resource.id, startLocal(f), endLocal(f))
                   >= DialogCapacity(f.resource)
       THEN "full"
       ELSE ""

InitConfirm ==
    /\ bookings = <<>>
    /\ resources = DialogResources
    /\ rangeStart = 0 /\ rangeEnd = 0 /\ opts = [x \in {} |-> 0]
    /\ pc = [t \in Tabs |-> "idle"]
    /\ call \in { c \in [Tabs -> {[user |-> u] : u \in Students \cup {NoUser}}] : c[1] = [user |-> "s1"] }
    /\ acc = [t \in Tabs |-> <<>>]
    /\ out = [t \in Tabs |-> [open |-> FALSE, alert |-> ""]]

\* handleBookNow, then the date, time and duration inputs
handleBookNow(t) ==
    /\ pc[t] = "idle"
    /\ \E i \in 1..Len(resources), tm \in FormSlots :
          call' = [call EXCEPT ![t] =
                      [user |-> call[t].user, resource |-> resources[i], bookingDate |-> 0,
                       hours |-> tm[1], minutes |-> tm[2], bookingDuration |-> tm[3]]]
    /\ pc' = [pc EXCEPT ![t] = "open"]
    /\ out' = [out EXCEPT ![t] = [open |-> TRUE, alert |-> ""]]
    /\ UNCHANGED <<bookings, resources, rangeStart, rangeEnd, opts, acc>>

\* the dialog's Cancel button and onOpenChange
closeDialog(t) ==
    /\ pc[t] = "open"
    /\ pc' = [pc EXCEPT ![t] = "idle"]
    /\ call' = [call EXCEPT ![t] = [user |-> call[t].user]]
    /\ out' = [out EXCEPT ![t] = [open |-> FALSE, alert |-> ""]]
    /\ UNCHANGED <<bookings, resources, rangeStart, rangeEnd, opts, acc>>

\* handleConfirmBooking up to its await of api.bookings.list
handleConfirmBooking(t) ==
    /\ pc[t] = "open"
    /\ IF call[t].user = NoUser
       THEN /\ out' = [out EXCEPT ![t].alert = "login"]
            /\ pc' = pc
       ELSE IF endLocal(call[t]) = NaN
       THEN /\ out' = [out EXCEPT ![t].alert = "failed"]
            /\ pc' = pc
       ELSE /\ out' = [out EXCEPT ![t].alert = ""]
            /\ pc' = [pc EXCEPT ![t] = "listing"]
    /\ UNCHANGED <<bookings, resources, rangeStart, rangeEnd, opts, call, acc>>

\* the table answers api.bookings.list
bookingsList(t) ==
    /\ pc[t] = "listing"
    /\ acc' = [acc EXCEPT ![t] = bookingsListRows(bookings, dayStart(call[t]), dayEnd(call[t]))]
    /\ pc' = [pc EXCEPT ![t] = "validating"]
    /\ UNCHANGED <<bookings, resources, rangeStart, rangeEnd, opts, call, out>>

\* handleConfirmBooking from the list's arrival to its await of api.bookings.create
validateBooking(t) ==
    /\ pc[t] = "validating"
    /\ LET alert == ValidationAlert(call[t], acc[t])
       IN IF alert # ""
          THEN /\ out' = [out EXCEPT ![t].alert = alert]
               /\ pc' = [pc EXCEPT ![t] = "open"]
          ELSE /\ out' = out
               /\ pc' = [pc EXCEPT ![t] = "creating"]
    /\ acc' = [acc EXCEPT ![t] = <<>>]
    /\ UNCHANGED <<bookings, resources, rangeStart, rangeEnd, opts, call>>

\* the table answers api.bookings.create with the inserted row
bookingsCreate(t) ==
    /\ pc[t] = "creating"
    /\ Len(bookings) < MaxRows
    /\ bookings' = Append(bookings,
          [resource_id |-> call[t].resource.id, user_id |-> call[t].user,
           start_time |-> toISOString(startLocal(call[t])),
           end_time |-> toISOString(endLocal(call[t])),
           status |-> "confirmed"])
    /\ pc' = [pc EXCEPT ![t] = "created"]
    /\ UNCHANGED <<resources, rangeStart, rangeEnd, opts, call, acc, out>>

\* the table answers api.bookings.create with an error: the catch block
bookingsCreateError(t) ==
    /\ pc[t] = "creating"
    /\ out' = [out EXCEPT ![t].alert = "failed"]
    /\ pc' = [pc EXCEPT ![t] = "open"]
    /\ UNCHANGED <<bookings, resources, rangeStart, rangeEnd, opts, call, acc>>

\* handleConfirmBooking after api.bookings.create
confirmBookingDone(t) ==
    /\ pc[t] = "created"
    /\ out' = [out EXCEPT ![t] = [open |-> FALSE, alert |-> "confirmed"]]
    /\ call' = [call EXCEPT ![t] = [user |-> call[t].user]]
    /\ pc' = [pc EXCEPT ![t] = "idle"]
    /\ UNCHANGED <<bookings, resources, rangeStart, rangeEnd, opts, acc>>

\* api.bookings.cancel
bookingsCancel(i) ==
    /\ i \in 1..Len(bookings)
    /\ bookings[i].status # "cancelled"
    /\ Len(SelectSeq(bookings, LAMBDA b : b.status = "cancelled")) < MaxCancelled
    /\ bookings' = [bookings EXCEPT ![i].status = "cancelled"]
    /\ UNCHANGED <<resources, rangeStart, rangeEnd, opts, pc, call, acc, out>>

NextConfirm ==
    \/ \E t \in Tabs : handleBookNow(t)
    \/ \E t \in Tabs : closeDialog(t)
    \/ \E t \in Tabs : handleConfirmBooking(t)
    \/ \E t \in Tabs : bookingsList(t)
    \/ \E t \in Tabs : validateBooking(t)
    \/ \E t \in Tabs : bookingsCreate(t)
    \/ \E t \in Tabs : bookingsCreateError(t)
    \/ \E t \in Tabs : confirmBookingDone(t)
    \/ \E i \in 1..MaxRows : bookingsCancel(i)

SpecConfirm == InitConfirm /\ [][NextConfirm]_vars

\* the rows that count: not cancelled
LiveRows == { i \in 1..Len(bookings) : bookings[i].status # "cancelled" }
RowCovers(i, m) == DateOfRow(bookings[i].start_time) <= m /\ m < DateOfRow(bookings[i].end_time)
RowsOverlap(i, j) ==
    /\ DateOfRow(bookings[i].start_time) < DateOfRow(bookings[j].end_time)
    /\ DateOfRow(bookings[j].start_time) < DateOfRow(bookings[i].end_time)

\* C29: whatever the interleaving of handleConfirmBooking calls, the
\* non-cancelled bookings of one resource that cover an instant are never more
\* than that resource's capacity (1 when absent).  The instants that matter are
\* the starts of the bookings, where the number of covering bookings rises.
C29_OccupancyWithinCapacity ==
    \A k \in 1..Len(resources) : \A j \in LiveRows :
        Cardinality({ i \in LiveRows : /\ bookings[i].resource_id = resources[k].id
                                       /\ RowCovers(i, DateOfRow(bookings[j].start_time)) })
            <= DialogCapacity(resources[k])

\* C30: whatever the interleaving of handleConfirmBooking calls, a student has
\* at most 2 non-cancelled bookings on one calendar day and no two non-cancelled
\* bookings whose time ranges overlap.
C30_StudentLimits ==
    \A s \in Students :
        LET mine == { i \in LiveRows : bookings[i].user_id = s }
        IN /\ \A d \in { bookings[i].start_time.date : i \in mine } :
                  Cardinality({ i \in mine : bookings[i].start_time.date = d }) <= 2
           /\ \A i, j \in mine : i # j => ~RowsOverlap(i, j)

\* C30, second half: a call whose checks find 2 bookings of the student or an
\* overlap returns with the table as it was and the dialog open.
RejectedCallCreatesNothing ==
    [][\A t \in Tabs :
          (pc[t] = "validating" /\ pc'[t] # "validating"
              /\ ValidationAlert(call[t], acc[t]) \in {"limit", "overlap"})
          => /\ bookings' = bookings
             /\ pc'[t] = "open"
             /\ out'[t].open
             /\ out'[t].alert = ValidationAlert(call[t], acc[t])]_vars

\* one call at a time: a tab starts a call only while no other tab's call is under way
CallStartsAlone ==
    \A t \in Tabs : (pc[t] = "open" /\ pc'[t] = "listing")
        => \A u \in Tabs : pc[u] \in {"idle", "open"}

SpecConfirmSerial == InitConfirm /\ [][NextConfirm /\ CallStartsAlone]_vars

====
